---- MODULE Spec2Model ----
(***************************************************************************)
(* Portfolio builder of src/script.js: the wizard state controller         *)
(* (steps, validation, skill / certificate / work lists) and the document  *)
(* generator generatePortfolioHTML with its preview, download and reset     *)
(* timers; and the page manager PortfolioManager: mobile menu, certificate  *)
(* cards, typewriter, contact form, throttled scroll and debounced resize.  *)
(*                                                                          *)
(* Text is a tuple of one-character strings, so that String.trim and the    *)
(* truthiness of a string are computed and not assumed.                     *)
(***************************************************************************)
EXTENDS Integers, Sequences, FiniteSets, TLC

----------------------------------------------------------------------------
(* Bounds of the model *)

\* retreat is not guarded in the code: the model stops following it
\* MaxUnderflow steps below step 1
MaxUnderflow == 2
\* generations whose reset timer is still pending
MaxPendingGenerations == 1
\* generations in flight at once when the same form is submitted repeatedly
MaxResubmissions == 2
\* entries per accumulated list, image reads in flight
MaxListLen == 2
MaxPendingReads == 2
\* project sub-forms in the collection surface
MaxProjectCards == 2
\* certificate cards rendered in the grid, touch timers pending at once
NumCertCards == 2
MaxTouchTimers == 1
\* contact-form submissions whose send is still pending
MaxPendingSends == 2
\* inputs, selections, list entries and steps by which a session of the
\* generation specification is away from the initial state when the user
\* edits it further
MaxSessionEdits == 1

----------------------------------------------------------------------------
(* Text *)

Whitespace == {" ", "\t", "\n"}

RECURSIVE TrimStart(_)
TrimStart(s) ==
    IF s = <<>> THEN <<>>
    ELSE IF Head(s) \in Whitespace THEN TrimStart(Tail(s))
    ELSE s

RECURSIVE TrimEnd(_)
TrimEnd(s) ==
    IF s = <<>> THEN <<>>
    ELSE IF s[Len(s)] \in Whitespace THEN TrimEnd(SubSeq(s, 1, Len(s) - 1))
    ELSE s

\* String.prototype.trim
Trim(s) == TrimEnd(TrimStart(s))

\* truthiness of a string, of null and of undefined
Truthy(s) == s # <<>> /\ s # <<"null">> /\ s # <<"undefined">>

Empty == <<>>
Blank == <<" ">>
TxtA == <<"a">>
TxtUpperA == <<"A">>
TxtB == <<"b">>
TxtPaddedA == <<" ", "a", " ">>

\* what the user types into a text input
TypedValues == {Empty, Blank, TxtA, TxtPaddedA}

----------------------------------------------------------------------------
(* Program constants *)

portfolioTotalSteps == 8

\* the form's steps, one element [data-step="k"] each
StepElements == 1..portfolioTotalSteps

\* inputs of the form read through getElementById(..).value
FormFields ==
    {"portfolioFullName", "portfolioEmail", "portfolioTitle", "portfolioBio",
     "portfolioProfileImage", "portfolioSelectedDomain", "portfolioExperience",
     "portfolioEducation", "portfolioPhone", "portfolioLocation",
     "portfolioLinkedin", "portfolioGithub", "portfolioWebsite",
     "portfolioTwitter", "portfolioSelectedTheme", "portfolioSkillInput",
     "portfolioCertName", "portfolioCertIssuer", "portfolioWorkTitle",
     "portfolioWorkCompany", "portfolioWorkDesc"}

\* value of every input after construction and after form.reset()
InitialField == [f \in FormFields |-> Empty]

\* the one project sub-form of the page, as written by the reset timer
EmptyProjectCard ==
    [name |-> Empty, desc |-> Empty, image |-> Empty, link |-> Empty,
     github |-> Empty]

\* the step whose section holds #portfolioProjectsContainer
ProjectsStep == 4

----------------------------------------------------------------------------
(* State *)

VARIABLES
    portfolioCurrentStep,     \* var portfolioCurrentStep
    portfolioSkills,          \* var portfolioSkills
    portfolioCertificates,    \* var portfolioCertificates
    portfolioWorkExperience,  \* var portfolioWorkExperience
    portfolioProjectCount,    \* var portfolioProjectCount
    field,                    \* value of each input of FormFields
    certImageFile,            \* files[0] of #portfolioCertImage, or NoFile
    projectCards,             \* the .portfolio-project-card sub-forms, in order
    ui,                       \* what showPortfolioStep last displayed
    modalActive,              \* #portfolioModalOverlay carries 'active'
    lists,                    \* innerHTML of the three list containers
    pendingReads,             \* FileReader reads in flight, with their closures
    timers,                   \* setTimeout callbacks not yet run, oldest first
    out,                      \* side effects of the handler that ran last
    page,                     \* this.state and the page elements the manager drives
    innerWidth,               \* window.innerWidth
    resizeTimer,              \* timers of the debounced resize listener
    touchTimers,              \* 300 ms timers of the cards' touchstart listeners
    ontouchstart,             \* 'ontouchstart' in window
    typewriter,               \* closure of initTypewriter and the text it shows
    contactForm,              \* #contactForm: its fields and its submit button
    pendingSends,             \* handleContactForm calls awaiting their send
    scroller                  \* scroll position, the throttled scroll listener
                              \* and what handleScroll drives

wizardVars ==
    <<portfolioCurrentStep, portfolioSkills, portfolioCertificates,
      portfolioWorkExperience, portfolioProjectCount>>
domVars == <<field, certImageFile, projectCards, ui, modalActive, lists>>
pageVars == <<page, innerWidth, resizeTimer, touchTimers, ontouchstart>>
siteVars == <<pageVars, typewriter, contactForm, pendingSends, scroller>>
builderVars == <<wizardVars, domVars, pendingReads, timers>>
vars == <<wizardVars, domVars, pendingReads, timers, out, siteVars>>

NoFile == [size |-> -1, data |-> Empty]

\* null and undefined, told apart from every text
Null == <<"null">>
Undefined == <<"undefined">>

NoDoc == <<>>
NoData == <<>>

\* what a handler shows to the user: its alerts, the input it focuses,
\* whether it threw, what window.open returned to it ("none": not called)
\* for which snapshot and the document written to the window, the
\* confirmations it asked and the file it saved, the section it scrolled
\* to, the functions it invoked through a throttled or debounced wrapper
\* and the notification it showed; here, none of them
NoEffects ==
    [alerts |-> <<>>, focus |-> "", threw |-> FALSE, windowOpen |-> "none",
     data |-> NoData, written |-> NoDoc, confirms |-> 0, saved |-> Empty,
     scrollTo |-> "none", invoked |-> <<>>, notification |-> <<>>]

----------------------------------------------------------------------------
(* Step navigation *)

ShowStepDisplay(step) == [activeStep |-> step,
     progress |-> <<step * 100, portfolioTotalSteps>>,
     prevBtn |-> IF step = 1 THEN "none" ELSE "block",
     nextBtn |-> IF step = portfolioTotalSteps THEN "none" ELSE "block",
     createBtn |-> IF step = portfolioTotalSteps THEN "block" ELSE "none"]

\* showPortfolioStep(step): every step loses 'active'; when no element
\* carries data-step = step, querySelector returns null and the call
\* throws before anything else is displayed
showPortfolioStep(display, step) ==
    IF step \in StepElements
    THEN [threw |-> FALSE, ui |-> ShowStepDisplay(step)]
    ELSE [threw |-> TRUE, ui |-> [display EXCEPT !.activeStep = 0]]

\* ids of the required inputs of a step outside the project sub-forms,
\* in document order
RequiredFields(step) ==
    IF step = 1 THEN <<"portfolioFullName", "portfolioEmail">> ELSE <<>>

RECURSIVE CardInputs(_)
CardInputs(cards) ==
    IF cards = <<>> THEN <<>>
    ELSE <<[id |-> "portfolio-project-name", value |-> Head(cards).name],
           [id |-> "portfolio-project-desc", value |-> Head(cards).desc]>>
         \o CardInputs(Tail(cards))

\* querySelectorAll('input[required], select[required], textarea[required]')
\* within the step's element: the inputs and their values, in document order
RequiredInputs(step) ==
    [i \in 1..Len(RequiredFields(step)) |->
        [id |-> RequiredFields(step)[i], value |-> field[RequiredFields(step)[i]]]]
    \o (IF step = ProjectsStep THEN CardInputs(projectCards) ELSE <<>>)

\* index of the first input whose trimmed value is empty, 0 when none
RECURSIVE FirstInvalid(_, _)
FirstInvalid(inputs, i) ==
    IF i > Len(inputs) THEN 0
    ELSE IF ~Truthy(Trim(inputs[i].value)) THEN i
    ELSE FirstInvalid(inputs, i + 1)

\* validatePortfolioStep without the check of the chosen domain
validatePortfolioStep_NoDomainCheck(step) ==
    IF step \notin StepElements
    THEN [ok |-> FALSE, threw |-> TRUE, alerts |-> <<>>, focus |-> ""]
    ELSE LET inputs == RequiredInputs(step)
             bad == FirstInvalid(inputs, 1)
         IN  IF bad # 0
             THEN [ok |-> FALSE, threw |-> FALSE,
                   alerts |-> <<"Please fill in all required fields">>,
                   focus |-> inputs[bad].id]
             ELSE [ok |-> TRUE, threw |-> FALSE, alerts |-> <<>>, focus |-> ""]

\* validatePortfolioStep(step): the returned value, the alerts shown and the
\* input focused; threw when the step has no element
validatePortfolioStep(step) ==
    IF step \notin StepElements
    THEN [ok |-> FALSE, threw |-> TRUE, alerts |-> <<>>, focus |-> ""]
    ELSE LET inputs == RequiredInputs(step)
             bad == FirstInvalid(inputs, 1)
         IN  IF bad # 0
             THEN [ok |-> FALSE, threw |-> FALSE,
                   alerts |-> <<"Please fill in all required fields">>,
                   focus |-> inputs[bad].id]
             ELSE IF step = 2 /\ ~Truthy(field["portfolioSelectedDomain"])
             THEN [ok |-> FALSE, threw |-> FALSE,
                   alerts |-> <<"Please select a domain">>, focus |-> ""]
             ELSE [ok |-> TRUE, threw |-> FALSE, alerts |-> <<>>, focus |-> ""]

\* nextPortfolioStep leaving the domain step for the step after the next
nextPortfolioStep_Skips ==
    LET v == validatePortfolioStep(portfolioCurrentStep)
        target == portfolioCurrentStep + (IF portfolioCurrentStep = 2 THEN 2 ELSE 1)
        shown == showPortfolioStep(ui, target)
    IN  /\ portfolioCurrentStep' = IF v.ok THEN target ELSE portfolioCurrentStep
        /\ ui' = IF v.ok THEN shown.ui ELSE ui
        /\ out' = [NoEffects EXCEPT
                      !.alerts = v.alerts, !.focus = v.focus,
                      !.threw = v.threw \/ (v.ok /\ shown.threw)]
        /\ UNCHANGED <<portfolioSkills, portfolioCertificates,
                       portfolioWorkExperience, portfolioProjectCount, field,
                       certImageFile, projectCards, modalActive, lists,
                       pendingReads, timers, siteVars>>

nextPortfolioStep ==
    LET v == validatePortfolioStep(portfolioCurrentStep)
        shown == showPortfolioStep(ui, portfolioCurrentStep + 1)
    IN  /\ portfolioCurrentStep' =
               IF v.ok THEN portfolioCurrentStep + 1 ELSE portfolioCurrentStep
        /\ ui' = IF v.ok THEN shown.ui ELSE ui
        /\ out' = [NoEffects EXCEPT
                      !.alerts = v.alerts, !.focus = v.focus,
                      !.threw = v.threw \/ (v.ok /\ shown.threw)]
        /\ UNCHANGED <<portfolioSkills, portfolioCertificates,
                       portfolioWorkExperience, portfolioProjectCount, field,
                       certImageFile, projectCards, modalActive, lists,
                       pendingReads, timers, siteVars>>

\* a retreat that validates the step it leaves, as the advance does
previousPortfolioStep_Validates ==
    LET v == validatePortfolioStep(portfolioCurrentStep)
        shown == showPortfolioStep(ui, portfolioCurrentStep - 1)
    IN  /\ portfolioCurrentStep > 1 - MaxUnderflow
        /\ portfolioCurrentStep' =
               IF v.ok THEN portfolioCurrentStep - 1 ELSE portfolioCurrentStep
        /\ ui' = IF v.ok THEN shown.ui ELSE ui
        /\ out' = [NoEffects EXCEPT
                      !.alerts = v.alerts, !.focus = v.focus,
                      !.threw = v.threw \/ (v.ok /\ shown.threw)]
        /\ UNCHANGED <<portfolioSkills, portfolioCertificates,
                       portfolioWorkExperience, portfolioProjectCount, field,
                       certImageFile, projectCards, modalActive, lists,
                       pendingReads, timers, siteVars>>

previousPortfolioStep ==
    LET shown == showPortfolioStep(ui, portfolioCurrentStep - 1)
    IN  /\ portfolioCurrentStep > 1 - MaxUnderflow
        /\ portfolioCurrentStep' = portfolioCurrentStep - 1
        /\ ui' = shown.ui
        /\ out' = [NoEffects EXCEPT !.threw = shown.threw]
        /\ UNCHANGED <<portfolioSkills, portfolioCertificates,
                       portfolioWorkExperience, portfolioProjectCount, field,
                       certImageFile, projectCards, modalActive, lists,
                       pendingReads, timers, siteVars>>

\* selectPortfolioDomain(domain, element), called by the domain cards
DomainChoices == {<<"w", "e", "b">>, <<"a", "i">>}

selectPortfolioDomain ==
    \E domain \in DomainChoices :
        /\ field' = [field EXCEPT !["portfolioSelectedDomain"] = domain]
        /\ out' = NoEffects
        /\ UNCHANGED <<wizardVars, certImageFile, projectCards, ui,
                       modalActive, lists, pendingReads, timers, siteVars>>

\* the user edits a required input of the first step
TypeRequiredField ==
    \E f \in {"portfolioFullName", "portfolioEmail"}, v \in TypedValues :
        /\ field' = [field EXCEPT ![f] = v]
        /\ out' = NoEffects
        /\ UNCHANGED <<wizardVars, certImageFile, projectCards, ui,
                       modalActive, lists, pendingReads, timers, siteVars>>

\* the user edits the name and the description of a project sub-form
TypeProjectCard ==
    \E i \in 1..Len(projectCards), n \in {Empty, Blank, TxtA}, d \in {Empty, TxtB} :
        /\ projectCards' = [projectCards EXCEPT ![i].name = n, ![i].desc = d]
        /\ out' = NoEffects
        /\ UNCHANGED <<wizardVars, field, certImageFile, ui, modalActive,
                       lists, pendingReads, timers, siteVars>>

----------------------------------------------------------------------------
(* Accumulated lists *)

\* the duplicate check stopping one entry short of the end
NotIn_SkipsLast(items, x) == \A i \in 1..(Len(items) - 1) : items[i] # x

\* Array.prototype.indexOf(x) === -1
NotIn(items, x) == \A i \in 1..Len(items) : items[i] # x

\* splice(index) without the delete count: everything from index on goes
Splice_ToEnd(items, index) ==
    SubSeq(items, 1, IF index < 0 THEN 0
                     ELSE IF index > Len(items) THEN Len(items) ELSE index)

\* Array.prototype.splice(index, 1) with a 0-based index: the array that
\* remains
Splice(items, index) ==
    LET len == Len(items)
        start == IF index < 0
                 THEN (IF len + index < 0 THEN 0 ELSE len + index)
                 ELSE (IF index > len THEN len ELSE index)
    IN  [j \in 1..(IF start < len THEN len - 1 ELSE len) |->
            IF j <= start THEN items[j] ELSE items[j + 1]]

\* one rendered .portfolio-list-item: its texts and the call of its remove
\* control
ListItem(texts, removeFn, i) ==
    [texts |-> texts, onclick |-> removeFn, index |-> i]

\* renderPortfolioList(containerId, items, removeFn): the innerHTML written
renderPortfolioList(items, removeFn) ==
    [i \in 1..Len(items) |-> ListItem(<<items[i]>>, removeFn, i - 1)]

\* the certificate list with remove controls numbered from one
renderPortfolioCertsList_FromOne(certs) ==
    [i \in 1..Len(certs) |->
        ListItem(<<certs[i].name, certs[i].issuer>>, "removePortfolioCert", i)]

renderPortfolioCertsList(certs) ==
    [i \in 1..Len(certs) |->
        ListItem(<<certs[i].name, certs[i].issuer>>, "removePortfolioCert", i - 1)]

renderPortfolioWorkList(work) ==
    [i \in 1..Len(work) |->
        ListItem(<<work[i].title, work[i].company, work[i].desc>>,
                 "removePortfolioWork", i - 1)]

\* the indexes carried by the remove controls now on the page
RemoveControls(rendered) == {rendered[i].index : i \in 1..Len(rendered)}

\* addPortfolioSkill() clearing the input whether or not the skill is added
addPortfolioSkillTyped_ClearsInput(typed) ==
    LET skill == Trim(typed)
        accepted == Truthy(skill) /\ NotIn(portfolioSkills, skill)
    IN  /\ accepted => Len(portfolioSkills) < MaxListLen
        /\ portfolioSkills' =
               IF accepted THEN Append(portfolioSkills, skill) ELSE portfolioSkills
        /\ lists' =
               IF accepted
               THEN [lists EXCEPT !.portfolioSkillsList =
                        renderPortfolioList(portfolioSkills', "removePortfolioSkill")]
               ELSE lists
        /\ field' = [field EXCEPT !["portfolioSkillInput"] = Empty]
        /\ out' = NoEffects
        /\ UNCHANGED <<portfolioCurrentStep, portfolioCertificates,
                       portfolioWorkExperience, portfolioProjectCount,
                       certImageFile, projectCards, ui, modalActive,
                       pendingReads, timers, siteVars>>

\* addPortfolioSkill() after the user typed `typed` into #portfolioSkillInput
addPortfolioSkillTyped(typed) ==
    LET skill == Trim(typed)
        accepted == Truthy(skill) /\ NotIn(portfolioSkills, skill)
    IN  /\ accepted => Len(portfolioSkills) < MaxListLen
        /\ portfolioSkills' =
               IF accepted THEN Append(portfolioSkills, skill) ELSE portfolioSkills
        /\ lists' =
               IF accepted
               THEN [lists EXCEPT !.portfolioSkillsList =
                        renderPortfolioList(portfolioSkills', "removePortfolioSkill")]
               ELSE lists
        /\ field' = [field EXCEPT !["portfolioSkillInput"] =
                        IF accepted THEN Empty ELSE typed]
        /\ out' = NoEffects
        /\ UNCHANGED <<portfolioCurrentStep, portfolioCertificates,
                       portfolioWorkExperience, portfolioProjectCount,
                       certImageFile, projectCards, ui, modalActive,
                       pendingReads, timers, siteVars>>

SkillsTyped == {Blank, TxtA, TxtPaddedA, TxtUpperA}

addPortfolioSkill == \E typed \in SkillsTyped : addPortfolioSkillTyped(typed)

removePortfolioSkillAt(index) ==
    /\ portfolioSkills' = Splice(portfolioSkills, index)
    /\ lists' = [lists EXCEPT !.portfolioSkillsList =
                    renderPortfolioList(portfolioSkills', "removePortfolioSkill")]
    /\ out' = NoEffects
    /\ UNCHANGED <<portfolioCurrentStep, portfolioCertificates,
                   portfolioWorkExperience, portfolioProjectCount, field,
                   certImageFile, projectCards, ui, modalActive, pendingReads,
                   timers, siteVars>>

\* a click on the remove control of a rendered skill
removePortfolioSkill ==
    \E index \in RemoveControls(lists.portfolioSkillsList) :
        removePortfolioSkillAt(index)

\* Check file size (max 5MB)
MaxImageBytes == 5 * 1024 * 1024

\* the limit excluding a file of exactly 5 MB
TooBig_AtLimit(file) == file.size >= MaxImageBytes

\* if (imageFile.size > 5 * 1024 * 1024)
TooBig(file) == file.size > MaxImageBytes

\* FileReader.readAsDataURL: the result handed to onload
DataURL(file) == <<"d", "a", "t", "a", ":">> \o file.data

\* the sizes of the files the user picks, around the limit
ImageFiles ==
    {[size |-> MaxImageBytes, data |-> <<"y">>],
     [size |-> MaxImageBytes + 1, data |-> <<"z">>]}

\* addPortfolioCertificate() after the user typed the name and the issuer and
\* picked the file (NoFile: none picked)
addPortfolioCertificateTyped(typedName, typedIssuer, imageFile) ==
    LET name == Trim(typedName)
        issuer == Trim(typedIssuer)
        cert == [name |-> name, issuer |-> issuer, image |-> Null]
        valid == Truthy(name) /\ Truthy(issuer)
        tooBig == valid /\ imageFile # NoFile /\ TooBig(imageFile)
        reads == valid /\ imageFile # NoFile /\ ~tooBig
        pushes == valid /\ imageFile = NoFile
    IN  /\ (reads \/ pushes) =>
               Len(portfolioCertificates) + Len(pendingReads) < MaxListLen
        /\ reads => Len(pendingReads) < MaxPendingReads
        /\ portfolioCertificates' =
               IF pushes THEN Append(portfolioCertificates, cert)
               ELSE portfolioCertificates
        /\ lists' =
               IF pushes
               THEN [lists EXCEPT !.portfolioCertsList =
                        renderPortfolioCertsList(portfolioCertificates')]
               ELSE lists
        /\ pendingReads' =
               IF reads THEN Append(pendingReads, [cert |-> cert, file |-> imageFile])
               ELSE pendingReads
        /\ field' = IF reads \/ pushes
                    THEN [field EXCEPT !["portfolioCertName"] = Empty,
                                       !["portfolioCertIssuer"] = Empty]
                    ELSE [field EXCEPT !["portfolioCertName"] = typedName,
                                       !["portfolioCertIssuer"] = typedIssuer]
        /\ certImageFile' = IF reads \/ pushes THEN NoFile ELSE imageFile
        /\ out' = [NoEffects EXCEPT
                      !.alerts = IF tooBig
                                 THEN <<"Image file size should be less than 5MB">>
                                 ELSE <<>>]
        /\ UNCHANGED <<portfolioCurrentStep, portfolioSkills,
                       portfolioWorkExperience, portfolioProjectCount,
                       projectCards, ui, modalActive, timers, siteVars>>

addPortfolioCertificate ==
    \E typedName \in {Empty, TxtPaddedA}, typedIssuer \in {TxtB},
       imageFile \in ImageFiles \cup {NoFile} :
        addPortfolioCertificateTyped(typedName, typedIssuer, imageFile)

\* reader.onload sharing one cert variable among the reads in flight: the
\* completing read appends the certificate of the oldest one
readerOnload_SharedCert(r) ==
    LET read == pendingReads[1]
        cert == [read.cert EXCEPT !.image = DataURL(read.file)]
    IN  /\ portfolioCertificates' = Append(portfolioCertificates, cert)
        /\ lists' = [lists EXCEPT !.portfolioCertsList =
                        renderPortfolioCertsList(portfolioCertificates')]
        /\ pendingReads' = Splice(pendingReads, r - 1)
        /\ out' = NoEffects
        /\ UNCHANGED <<portfolioCurrentStep, portfolioSkills,
                       portfolioWorkExperience, portfolioProjectCount, field,
                       certImageFile, projectCards, ui, modalActive, timers, siteVars>>

\* reader.onload of the read at position r of the reads in flight
readerOnload(r) ==
    LET read == pendingReads[r]
        cert == [read.cert EXCEPT !.image = DataURL(read.file)]
    IN  /\ portfolioCertificates' = Append(portfolioCertificates, cert)
        /\ lists' = [lists EXCEPT !.portfolioCertsList =
                        renderPortfolioCertsList(portfolioCertificates')]
        /\ pendingReads' = Splice(pendingReads, r - 1)
        /\ out' = NoEffects
        /\ UNCHANGED <<portfolioCurrentStep, portfolioSkills,
                       portfolioWorkExperience, portfolioProjectCount, field,
                       certImageFile, projectCards, ui, modalActive, timers, siteVars>>

\* the reads are independent: any of them completes next
ReadCompletes == \E r \in 1..Len(pendingReads) : readerOnload(r)

removePortfolioCertAt(index) ==
    /\ portfolioCertificates' = Splice(portfolioCertificates, index)
    /\ lists' = [lists EXCEPT !.portfolioCertsList =
                    renderPortfolioCertsList(portfolioCertificates')]
    /\ out' = NoEffects
    /\ UNCHANGED <<portfolioCurrentStep, portfolioSkills,
                   portfolioWorkExperience, portfolioProjectCount, field,
                   certImageFile, projectCards, ui, modalActive, pendingReads,
                   timers, siteVars>>

removePortfolioCert ==
    \E index \in RemoveControls(lists.portfolioCertsList) :
        removePortfolioCertAt(index)

\* addPortfolioWork() accepting an entry that has a title or a company
addPortfolioWorkTyped_EitherOne(typedTitle, typedCompany, typedDesc) ==
    LET title == Trim(typedTitle)
        company == Trim(typedCompany)
        desc == Trim(typedDesc)
        valid == Truthy(title) \/ Truthy(company)
    IN  /\ valid => Len(portfolioWorkExperience) < MaxListLen
        /\ portfolioWorkExperience' =
               IF valid
               THEN Append(portfolioWorkExperience,
                           [title |-> title, company |-> company, desc |-> desc])
               ELSE portfolioWorkExperience
        /\ lists' =
               IF valid
               THEN [lists EXCEPT !.portfolioWorkList =
                        renderPortfolioWorkList(portfolioWorkExperience')]
               ELSE lists
        /\ field' = IF valid
                    THEN [field EXCEPT !["portfolioWorkTitle"] = Empty,
                                       !["portfolioWorkCompany"] = Empty,
                                       !["portfolioWorkDesc"] = Empty]
                    ELSE [field EXCEPT !["portfolioWorkTitle"] = typedTitle,
                                       !["portfolioWorkCompany"] = typedCompany,
                                       !["portfolioWorkDesc"] = typedDesc]
        /\ out' = NoEffects
        /\ UNCHANGED <<portfolioCurrentStep, portfolioSkills,
                       portfolioCertificates, portfolioProjectCount,
                       certImageFile, projectCards, ui, modalActive,
                       pendingReads, timers, siteVars>>

\* addPortfolioWork() after the user typed title, company and description
addPortfolioWorkTyped(typedTitle, typedCompany, typedDesc) ==
    LET title == Trim(typedTitle)
        company == Trim(typedCompany)
        desc == Trim(typedDesc)
        valid == Truthy(title) /\ Truthy(company)
    IN  /\ valid => Len(portfolioWorkExperience) < MaxListLen
        /\ portfolioWorkExperience' =
               IF valid
               THEN Append(portfolioWorkExperience,
                           [title |-> title, company |-> company, desc |-> desc])
               ELSE portfolioWorkExperience
        /\ lists' =
               IF valid
               THEN [lists EXCEPT !.portfolioWorkList =
                        renderPortfolioWorkList(portfolioWorkExperience')]
               ELSE lists
        /\ field' = IF valid
                    THEN [field EXCEPT !["portfolioWorkTitle"] = Empty,
                                       !["portfolioWorkCompany"] = Empty,
                                       !["portfolioWorkDesc"] = Empty]
                    ELSE [field EXCEPT !["portfolioWorkTitle"] = typedTitle,
                                       !["portfolioWorkCompany"] = typedCompany,
                                       !["portfolioWorkDesc"] = typedDesc]
        /\ out' = NoEffects
        /\ UNCHANGED <<portfolioCurrentStep, portfolioSkills,
                       portfolioCertificates, portfolioProjectCount,
                       certImageFile, projectCards, ui, modalActive,
                       pendingReads, timers, siteVars>>

addPortfolioWork ==
    \E typedTitle \in {Blank, TxtA}, typedCompany \in {TxtPaddedA},
       typedDesc \in {Empty} :
        addPortfolioWorkTyped(typedTitle, typedCompany, typedDesc)

removePortfolioWorkAt(index) ==
    /\ portfolioWorkExperience' = Splice(portfolioWorkExperience, index)
    /\ lists' = [lists EXCEPT !.portfolioWorkList =
                    renderPortfolioWorkList(portfolioWorkExperience')]
    /\ out' = NoEffects
    /\ UNCHANGED <<portfolioCurrentStep, portfolioSkills,
                   portfolioCertificates, portfolioProjectCount, field,
                   certImageFile, projectCards, ui, modalActive, pendingReads,
                   timers, siteVars>>

removePortfolioWork ==
    \E index \in RemoveControls(lists.portfolioWorkList) :
        removePortfolioWorkAt(index)

----------------------------------------------------------------------------
(* Document generator *)

Dark == <<"d", "a", "r", "k">>
Blue == <<"b", "l", "u", "e">>
Green == <<"g", "r", "e", "e", "n">>
Orange == <<"o", "r", "a", "n", "g", "e">>
Pink == <<"p", "i", "n", "k">>
Purple == <<"p", "u", "r", "p", "l", "e">>
ThemeConstructor == <<"c", "o", "n", "s", "t", "r", "u", "c", "t", "o", "r">>
ThemeToString == <<"t", "o", "S", "t", "r", "i", "n", "g">>

\* var themeColors = { dark: .., blue: .., green: .., orange: .., pink: .. }
themeColors ==
    (Dark :> [primary |-> "#667eea", secondary |-> "#764ba2", bg |-> "#0f0f1e",
              cardBg |-> "#1a1a2e", text |-> "#ffffff"])
    @@ (Blue :> [primary |-> "#3b82f6", secondary |-> "#1e40af", bg |-> "#0f172a",
                 cardBg |-> "#1e293b", text |-> "#ffffff"])
    @@ (Green :> [primary |-> "#10b981", secondary |-> "#047857", bg |-> "#064e3b",
                  cardBg |-> "#065f46", text |-> "#ffffff"])
    @@ (Orange :> [primary |-> "#f97316", secondary |-> "#ea580c", bg |-> "#431407",
                   cardBg |-> "#7c2d12", text |-> "#ffffff"])
    @@ (Pink :> [primary |-> "#ec4899", secondary |-> "#be185d", bg |-> "#500724",
                 cardBg |-> "#831843", text |-> "#ffffff"])

\* themeColors is an object literal: a name it does not define itself is
\* looked up in Object.prototype, whose members are functions and objects
\* (truthy) without colour properties
ObjectPrototypeKeys == {ThemeConstructor, ThemeToString}

InheritedMember ==
    [primary |-> "undefined", secondary |-> "undefined", bg |-> "undefined",
     cardBg |-> "undefined", text |-> "undefined"]

\* var colors = themeColors[data.theme] || themeColors.dark
Colors(theme) ==
    IF theme \in DOMAIN themeColors THEN themeColors[theme]
    ELSE IF theme \in ObjectPrototypeKeys THEN InheritedMember
    ELSE themeColors[Dark]

\* a piece of markup: its class or label, the texts interpolated into it and
\* the pieces nested in it
Piece(tag, texts, parts) == [tag |-> tag, texts |-> texts, parts |-> parts]

OptionalPiece(cond, piece) == IF cond THEN <<piece>> ELSE <<>>

skillsHTML(skills) ==
    [i \in 1..Len(skills) |-> Piece("skill-tag", <<skills[i]>>, <<>>)]

projectsHTML(projects) ==
    [i \in 1..Len(projects) |->
        LET p == projects[i]
        IN  Piece("project-card", <<p.name, p.desc>>,
                  OptionalPiece(Truthy(p.image),
                                Piece("project-img", <<p.image, p.name>>, <<>>))
                  \o OptionalPiece(Truthy(p.link),
                                   Piece("Live Demo", <<p.link>>, <<>>))
                  \o OptionalPiece(Truthy(p.github),
                                   Piece("GitHub", <<p.github>>, <<>>)))]

certsHTML(certs) ==
    [i \in 1..Len(certs) |->
        Piece("cert-item", <<certs[i].name, certs[i].issuer>>,
              IF Truthy(certs[i].image)
              THEN <<Piece("cert-image", <<certs[i].image, certs[i].name>>, <<>>)>>
              ELSE <<Piece("cert-icon", <<>>, <<>>)>>)]

workHTML(work) ==
    [i \in 1..Len(work) |->
        Piece("work-item", <<work[i].title, work[i].company, work[i].desc>>, <<>>)]

\* the header block: optional profile image, name, title, optional
\* experience line and bio
headerHTML(data) ==
    OptionalPiece(Truthy(data.profileImage),
                  Piece("profile-img", <<data.profileImage, data.fullName>>, <<>>))
    \o <<Piece("h1", <<data.fullName>>, <<>>),
         Piece("tagline", <<data.title>>, <<>>)>>
    \o OptionalPiece(Truthy(data.experience),
                     Piece("experience", <<data.experience>>, <<>>))
    \o OptionalPiece(Truthy(data.bio), Piece("bio", <<data.bio>>, <<>>))

\* the sections with the certificates nested in the work-experience test
sectionsHTML_NestedCertificates(data) ==
    OptionalPiece(Len(data.skills) > 0,
                  Piece("Skills & Expertise", <<>>, skillsHTML(data.skills)))
    \o OptionalPiece(Len(data.projects) > 0,
                     Piece("Featured Projects", <<>>, projectsHTML(data.projects)))
    \o OptionalPiece(Len(data.workExperience) > 0,
                     Piece("Work Experience", <<>>, workHTML(data.workExperience)))
    \o OptionalPiece(Len(data.workExperience) > 0 /\ Len(data.certificates) > 0,
                     Piece("Certificates & Achievements", <<>>,
                           certsHTML(data.certificates)))
    \o OptionalPiece(Truthy(data.education),
                     Piece("Education", <<data.education>>, <<>>))

\* the optional sections, each under its own condition
sectionsHTML(data) ==
    OptionalPiece(Len(data.skills) > 0,
                  Piece("Skills & Expertise", <<>>, skillsHTML(data.skills)))
    \o OptionalPiece(Len(data.projects) > 0,
                     Piece("Featured Projects", <<>>, projectsHTML(data.projects)))
    \o OptionalPiece(Len(data.workExperience) > 0,
                     Piece("Work Experience", <<>>, workHTML(data.workExperience)))
    \o OptionalPiece(Len(data.certificates) > 0,
                     Piece("Certificates & Achievements", <<>>,
                           certsHTML(data.certificates)))
    \o OptionalPiece(Truthy(data.education),
                     Piece("Education", <<data.education>>, <<>>))

MailTo == <<"m", "a", "i", "l", "t", "o", ":">>
Tel == <<"t", "e", "l", ":">>

\* one .contact-item: an <a href=..> with its label, or a <span> (no href)
\* holding its label and a text
ContactLink(href, label) ==
    [element |-> "a", href |-> href, label |-> label, text |-> Empty]
ContactText(label, text) ==
    [element |-> "span", href |-> Null, label |-> label, text |-> text]

\* the contact section with the location as a link, like its neighbours
contactHTML_LinksLocation(data) ==
    Piece("Get In Touch", <<>>,
          OptionalPiece(Truthy(data.email),
                        ContactLink(MailTo \o data.email, "Email"))
          \o OptionalPiece(Truthy(data.phone),
                           ContactLink(Tel \o data.phone, "Phone"))
          \o OptionalPiece(Truthy(data.location),
                           ContactLink(data.location, "Location"))
          \o OptionalPiece(Truthy(data.linkedin),
                           ContactLink(data.linkedin, "LinkedIn"))
          \o OptionalPiece(Truthy(data.github),
                           ContactLink(data.github, "GitHub"))
          \o OptionalPiece(Truthy(data.website),
                           ContactLink(data.website, "Website"))
          \o OptionalPiece(Truthy(data.twitter),
                           ContactLink(data.twitter, "Twitter")))

\* the contact section: one entry per channel with a value
contactHTML(data) ==
    Piece("Get In Touch", <<>>,
          OptionalPiece(Truthy(data.email),
                        ContactLink(MailTo \o data.email, "Email"))
          \o OptionalPiece(Truthy(data.phone),
                           ContactLink(Tel \o data.phone, "Phone"))
          \o OptionalPiece(Truthy(data.location),
                           ContactText("Location", data.location))
          \o OptionalPiece(Truthy(data.linkedin),
                           ContactLink(data.linkedin, "LinkedIn"))
          \o OptionalPiece(Truthy(data.github),
                           ContactLink(data.github, "GitHub"))
          \o OptionalPiece(Truthy(data.website),
                           ContactLink(data.website, "Website"))
          \o OptionalPiece(Truthy(data.twitter),
                           ContactLink(data.twitter, "Twitter")))

\* the text with the running number of project sub-forms in its footer
portfolioHTML_NumbersProjects(data) ==
    [title |-> data.fullName,
     style |-> Colors(data.theme),
     header |-> headerHTML(data),
     sections |-> sectionsHTML(data),
     contact |-> contactHTML(data),
     footer |-> data.fullName \o <<portfolioProjectCount>>]

\* the text assembled by generatePortfolioHTML(data), lines 1987-2094
portfolioHTML(data) ==
    [title |-> data.fullName,
     style |-> Colors(data.theme),
     header |-> headerHTML(data),
     sections |-> sectionsHTML(data),
     contact |-> contactHTML(data),
     footer |-> data.fullName]

\* String.replace(/\s+/g, '_')
RECURSIVE ReplaceWhitespaceRuns(_)
ReplaceWhitespaceRuns(s) ==
    IF s = <<>> THEN <<>>
    ELSE IF Head(s) \in Whitespace
         THEN <<"_">> \o ReplaceWhitespaceRuns(TrimStart(s))
         ELSE <<Head(s)>> \o ReplaceWhitespaceRuns(Tail(s))

DownloadName(data) == ReplaceWhitespaceRuns(data.fullName) \o <<"_Portfolio.html">>

DownloadDelay == 500
ResetDelay == 1000

DownloadTimer(data, doc) ==
    [kind |-> "download", delay |-> DownloadDelay, data |-> data, doc |-> doc]
ResetTimerEntry ==
    [kind |-> "reset", delay |-> ResetDelay, data |-> NoData, doc |-> NoDoc]

PendingResets == Cardinality({i \in 1..Len(timers) : timers[i].kind = "reset"})

\* generatePortfolioHTML(data); window.open gives a window or null
generatePortfolioHTML(data) ==
    \E newWindow \in BOOLEAN :
        LET doc == portfolioHTML(data)
        IN  /\ timers' = timers
                         \o (IF newWindow THEN <<DownloadTimer(data, doc)>> ELSE <<>>)
                         \o <<ResetTimerEntry>>
            /\ modalActive' = FALSE
            /\ out' = [NoEffects EXCEPT
                          !.data = data,
                          !.windowOpen = IF newWindow THEN "window" ELSE "null",
                          !.written = IF newWindow THEN doc ELSE NoDoc]
            /\ UNCHANGED <<wizardVars, field, certImageFile, projectCards, ui,
                           lists, pendingReads, siteVars>>

\* the projects harvested from the sub-forms by createPortfolioFromBuilder
RECURSIVE HarvestProjects(_)
HarvestProjects(cards) ==
    IF cards = <<>> THEN <<>>
    ELSE LET name == Trim(Head(cards).name)
             desc == Trim(Head(cards).desc)
         IN  (IF Truthy(name) /\ Truthy(desc)
              THEN <<[name |-> name, desc |-> desc,
                      image |-> Trim(Head(cards).image),
                      link |-> Trim(Head(cards).link),
                      github |-> Trim(Head(cards).github)]>>
              ELSE <<>>)
             \o HarvestProjects(Tail(cards))

\* var formData = { .. } of createPortfolioFromBuilder
FormData ==
    [fullName |-> field["portfolioFullName"],
     email |-> field["portfolioEmail"],
     title |-> field["portfolioTitle"],
     bio |-> field["portfolioBio"],
     profileImage |-> field["portfolioProfileImage"],
     domain |-> field["portfolioSelectedDomain"],
     experience |-> field["portfolioExperience"],
     skills |-> portfolioSkills,
     projects |-> HarvestProjects(projectCards),
     certificates |-> portfolioCertificates,
     workExperience |-> portfolioWorkExperience,
     education |-> field["portfolioEducation"],
     phone |-> field["portfolioPhone"],
     location |-> field["portfolioLocation"],
     linkedin |-> field["portfolioLinkedin"],
     github |-> field["portfolioGithub"],
     website |-> field["portfolioWebsite"],
     twitter |-> field["portfolioTwitter"],
     theme |-> field["portfolioSelectedTheme"]]

createPortfolioFromBuilder == generatePortfolioHTML(FormData)

\* timers run in any order, whatever their delays
Due_Unordered(i) == i \in 1..Len(timers)

\* a timer runs once every timer that is due before it has run: an older
\* timer with the same or a shorter delay is due first
Due(i) == \A j \in 1..(i - 1) : timers[j].delay > timers[i].delay

\* the callback of setTimeout(.., 500): the download offer
downloadTimer(i) ==
    \E confirmed \in BOOLEAN :
        /\ timers[i].kind = "download"
        /\ Due(i)
        /\ timers' = Splice(timers, i - 1)
        /\ out' = [NoEffects EXCEPT
                      !.confirms = 1,
                      !.saved = IF confirmed THEN DownloadName(timers[i].data)
                                ELSE Empty]
        /\ UNCHANGED <<wizardVars, domVars, pendingReads, siteVars>>

DownloadOffer == \E i \in 1..Len(timers) : downloadTimer(i)

\* the reset callback without the line that resets portfolioProjectCount
resetTimer_KeepsProjectCount(i) ==
    /\ timers[i].kind = "reset"
    /\ Due(i)
    /\ timers' = Splice(timers, i - 1)
    /\ field' = InitialField
    /\ certImageFile' = NoFile
    /\ portfolioSkills' = <<>>
    /\ portfolioCertificates' = <<>>
    /\ portfolioWorkExperience' = <<>>
    /\ portfolioCurrentStep' = 1
    /\ ui' = showPortfolioStep(ui, 1).ui
    /\ projectCards' = <<EmptyProjectCard>>
    /\ lists' = [portfolioSkillsList |-> <<>>, portfolioCertsList |-> <<>>,
                 portfolioWorkList |-> <<>>]
    /\ out' = NoEffects
    /\ UNCHANGED <<modalActive, pendingReads, portfolioProjectCount, siteVars>>

\* the reset callback doing nothing when the modal was opened again
resetTimer_SparesOpenModal(i) ==
    /\ timers[i].kind = "reset"
    /\ Due(i)
    /\ timers' = Splice(timers, i - 1)
    /\ field' = IF modalActive THEN field ELSE InitialField
    /\ certImageFile' = IF modalActive THEN certImageFile ELSE NoFile
    /\ portfolioSkills' = IF modalActive THEN portfolioSkills ELSE <<>>
    /\ portfolioCertificates' =
           IF modalActive THEN portfolioCertificates ELSE <<>>
    /\ portfolioWorkExperience' =
           IF modalActive THEN portfolioWorkExperience ELSE <<>>
    /\ portfolioProjectCount' = IF modalActive THEN portfolioProjectCount ELSE 1
    /\ portfolioCurrentStep' = IF modalActive THEN portfolioCurrentStep ELSE 1
    /\ ui' = IF modalActive THEN ui ELSE showPortfolioStep(ui, 1).ui
    /\ projectCards' = IF modalActive THEN projectCards ELSE <<EmptyProjectCard>>
    /\ lists' = IF modalActive THEN lists
                ELSE [portfolioSkillsList |-> <<>>, portfolioCertsList |-> <<>>,
                      portfolioWorkList |-> <<>>]
    /\ out' = NoEffects
    /\ UNCHANGED <<modalActive, pendingReads, siteVars>>

\* the reset callback aborting the image reads in flight
resetTimer_AbortsReads(i) ==
    /\ timers[i].kind = "reset"
    /\ Due(i)
    /\ timers' = Splice(timers, i - 1)
    /\ field' = InitialField
    /\ certImageFile' = NoFile
    /\ portfolioSkills' = <<>>
    /\ portfolioCertificates' = <<>>
    /\ portfolioWorkExperience' = <<>>
    /\ portfolioProjectCount' = 1
    /\ portfolioCurrentStep' = 1
    /\ ui' = showPortfolioStep(ui, 1).ui
    /\ projectCards' = <<EmptyProjectCard>>
    /\ lists' = [portfolioSkillsList |-> <<>>, portfolioCertsList |-> <<>>,
                 portfolioWorkList |-> <<>>]
    /\ pendingReads' = <<>>
    /\ out' = NoEffects
    /\ UNCHANGED <<modalActive, siteVars>>

\* the callback of setTimeout(.., 1000): the reset of the form and the state
resetTimer(i) ==
    /\ timers[i].kind = "reset"
    /\ Due(i)
    /\ timers' = Splice(timers, i - 1)
    /\ field' = InitialField
    /\ certImageFile' = NoFile
    /\ portfolioSkills' = <<>>
    /\ portfolioCertificates' = <<>>
    /\ portfolioWorkExperience' = <<>>
    /\ portfolioProjectCount' = 1
    /\ portfolioCurrentStep' = 1
    /\ ui' = showPortfolioStep(ui, 1).ui
    /\ projectCards' = <<EmptyProjectCard>>
    /\ lists' = [portfolioSkillsList |-> <<>>, portfolioCertsList |-> <<>>,
                 portfolioWorkList |-> <<>>]
    /\ out' = NoEffects
    /\ UNCHANGED <<modalActive, pendingReads, siteVars>>

Reset == \E i \in 1..Len(timers) : resetTimer(i)

openPortfolioModal ==
    /\ modalActive' = TRUE
    /\ out' = NoEffects
    /\ UNCHANGED <<wizardVars, field, certImageFile, projectCards, ui, lists,
                   pendingReads, timers, siteVars>>

closePortfolioModal ==
    /\ modalActive' = FALSE
    /\ out' = NoEffects
    /\ UNCHANGED <<wizardVars, field, certImageFile, projectCards, ui, lists,
                   pendingReads, timers, siteVars>>

\* selectPortfolioTheme(theme, element), called by the theme swatches
selectPortfolioTheme ==
    \E theme \in {Green, Pink} :
        /\ field' = [field EXCEPT !["portfolioSelectedTheme"] = theme]
        /\ out' = NoEffects
        /\ UNCHANGED <<wizardVars, certImageFile, projectCards, ui,
                       modalActive, lists, pendingReads, timers, siteVars>>

\* addPortfolioProjectField() numbering the sub-forms from the initial
\* count without storing the new count
addPortfolioProjectField_ForgetsCount ==
    /\ Len(projectCards) < MaxProjectCards
    /\ projectCards' = Append(projectCards, EmptyProjectCard)
    /\ out' = NoEffects
    /\ UNCHANGED <<portfolioCurrentStep, portfolioSkills, portfolioCertificates,
                   portfolioWorkExperience, portfolioProjectCount, field,
                   certImageFile, ui, modalActive, lists, pendingReads, timers, siteVars>>

addPortfolioProjectField ==
    /\ Len(projectCards) < MaxProjectCards
    /\ portfolioProjectCount' = portfolioProjectCount + 1
    /\ projectCards' = Append(projectCards, EmptyProjectCard)
    /\ out' = NoEffects
    /\ UNCHANGED <<portfolioCurrentStep, portfolioSkills, portfolioCertificates,
                   portfolioWorkExperience, field, certImageFile, ui,
                   modalActive, lists, pendingReads, timers, siteVars>>

----------------------------------------------------------------------------
(* The page: mobile menu, navigation links and certificate cards of         *)
(* PortfolioManager.  A handler is an operator from the page to the page,   *)
(* so that the listeners an event reaches are composed in the order in      *)
(* which they were registered.                                              *)

\* window.innerWidth > 768 is the desktop layout
DesktopBreakpoint == 768
Widths == {DesktopBreakpoint - 1, DesktopBreakpoint, DesktopBreakpoint + 1}

\* href of the links of 'header nav a'
NavLinks == {"#home", "#about"}

\* the .cert-card elements that renderCertificates writes; NoCard is a
\* target outside every card
Cards == 1..NumCertCards
NoCard == 0

\* classList.toggle
ClassToggle(classList, c) ==
    IF c \in classList THEN classList \ {c} ELSE classList \cup {c}

\* classes and styles of #menu, .navbar, body and the navigation links as
\* the markup declares them
MenuMarkup ==
    [menuToggle |-> {}, navbar |-> {}, overflow |-> "", activeLinks |-> {}]

\* the constructor's this.state, and the elements before any event: the
\* cards as generateCertificateCard writes them
InitialPage ==
    [isMenuOpen |-> FALSE,
     menuToggle |-> MenuMarkup.menuToggle,
     navbar |-> MenuMarkup.navbar,
     overflow |-> MenuMarkup.overflow,
     activeLinks |-> MenuMarkup.activeLinks,
     cardActive |-> {},
     ariaExpanded |-> [c \in Cards |-> "none"],
     touchStarted |-> {}]

\* toggleMobileMenu leaving the flag as it was
toggleMobileMenu_KeepsFlag(p) ==
    [p EXCEPT !.menuToggle = ClassToggle(@, "bx-x"),
              !.navbar = ClassToggle(@, "active"),
              !.overflow = IF p.isMenuOpen THEN "hidden" ELSE ""]

toggleMobileMenu(p) ==
    [p EXCEPT !.isMenuOpen = ~ @,
              !.menuToggle = ClassToggle(@, "bx-x"),
              !.navbar = ClassToggle(@, "active"),
              !.overflow = IF ~ p.isMenuOpen THEN "hidden" ELSE ""]

closeMobileMenu(p) ==
    [p EXCEPT !.isMenuOpen = FALSE,
              !.menuToggle = @ \ {"bx-x"},
              !.navbar = @ \ {"active"},
              !.overflow = ""]

updateActiveNavLink(p, activeHref) ==
    [p EXCEPT !.activeLinks = {link \in NavLinks : link = activeHref}]

\* handleNavigation(e) for a link to href; found: getElementById(targetId)
\* returned an element
handleNavigation(p, href, found) ==
    IF ~ found THEN p
    ELSE updateActiveNavLink(closeMobileMenu(p), href)

handleKeyboardNavigation(p, key) ==
    IF key = "Escape" /\ p.isMenuOpen THEN closeMobileMenu(p) ELSE p

\* handleOutsideClick(e); inNavbar, inToggle: the element contains e.target
handleOutsideClick(p, inNavbar, inToggle) ==
    IF p.isMenuOpen /\ ~ inNavbar /\ ~ inToggle THEN closeMobileMenu(p) ELSE p

handleResize(p, width) ==
    IF width > DesktopBreakpoint /\ p.isMenuOpen THEN closeMobileMenu(p) ELSE p

closeCertificatePreview(p, card) ==
    [p EXCEPT !.cardActive = @ \ {card},
              !.ariaExpanded[card] = "false"]

\* the animation it starts on the preview is a style that nothing reads
openCertificatePreview(p, card) ==
    [p EXCEPT !.cardActive = @ \cup {card},
              !.ariaExpanded[card] = "true"]

\* closeCertificatePreview for each card of a collection
RECURSIVE CloseEach(_, _)
CloseEach(p, cards) ==
    IF cards = {} THEN p
    ELSE LET card == CHOOSE c \in cards : TRUE
         IN  CloseEach(closeCertificatePreview(p, card), cards \ {card})

\* toggleCertificatePreview leaving the other previews open
toggleCertificatePreview_KeepsOthers(p, card) ==
    IF card \in p.cardActive
    THEN closeCertificatePreview(p, card)
    ELSE openCertificatePreview(p, card)

toggleCertificatePreview(p, card) ==
    LET isActive == card \in p.cardActive
        others == CloseEach(p, p.cardActive \ {card})
    IN  IF isActive
        THEN closeCertificatePreview(others, card)
        ELSE openCertificatePreview(others, card)

\* the document listeners of setupCertificateCards, one pair per card
CardsOnDocumentKeydown(p, key) ==
    IF key = "Escape" THEN CloseEach(p, Cards) ELSE p

CardsOnDocumentClick(p, target) ==
    CloseEach(p, {card \in Cards : card # target})

\* the card's own keydown listener
CardOnKeydown(p, card, key) ==
    IF card # NoCard /\ key \in {"Enter", " "}
    THEN toggleCertificatePreview(p, card)
    ELSE p

\* the card's own click listener
CardOnClick(p, card) ==
    IF ~ ontouchstart THEN toggleCertificatePreview(p, card) ELSE p

besidePage == <<builderVars, typewriter, contactForm, pendingSends, scroller>>

\* a click on #menu: toggleMobileMenu stops the propagation, so no listener
\* of the document runs
ClickMenuToggle ==
    /\ page' = toggleMobileMenu(page)
    /\ out' = NoEffects
    /\ UNCHANGED <<innerWidth, resizeTimer, touchTimers, ontouchstart>>
    /\ UNCHANGED besidePage

\* a click on a navigation link, which then reaches the document
ClickNavLinkTo(href, found, inNavbar) ==
    /\ page' = CardsOnDocumentClick(
                   handleOutsideClick(handleNavigation(page, href, found),
                                      inNavbar, FALSE),
                   NoCard)
    /\ out' = [NoEffects EXCEPT !.scrollTo = IF found THEN href ELSE "none"]
    /\ UNCHANGED <<innerWidth, resizeTimer, touchTimers, ontouchstart>>
    /\ UNCHANGED besidePage

ClickNavLink ==
    \E href \in NavLinks, found \in BOOLEAN, inNavbar \in BOOLEAN :
        ClickNavLinkTo(href, found, inNavbar)

\* a click on a certificate card
ClickCardOf(card) ==
    /\ page' = CardsOnDocumentClick(
                   handleOutsideClick(CardOnClick(page, card), FALSE, FALSE),
                   card)
    /\ out' = NoEffects
    /\ UNCHANGED <<innerWidth, resizeTimer, touchTimers, ontouchstart>>
    /\ UNCHANGED besidePage

ClickCard == \E card \in Cards : ClickCardOf(card)

\* a click anywhere else, inside or outside the navbar
ClickElsewhereAt(inNavbar) ==
    /\ page' = CardsOnDocumentClick(
                   handleOutsideClick(page, inNavbar, FALSE), NoCard)
    /\ out' = NoEffects
    /\ UNCHANGED <<innerWidth, resizeTimer, touchTimers, ontouchstart>>
    /\ UNCHANGED besidePage

ClickElsewhere == \E inNavbar \in BOOLEAN : ClickElsewhereAt(inNavbar)

\* a key pressed while a card, or no card, has the focus
KeyDownOn(key, focus) ==
    /\ page' = CardsOnDocumentKeydown(
                   handleKeyboardNavigation(CardOnKeydown(page, focus, key),
                                            key),
                   key)
    /\ out' = NoEffects
    /\ UNCHANGED <<innerWidth, resizeTimer, touchTimers, ontouchstart>>
    /\ UNCHANGED besidePage

Keys == {"Escape", "Enter", " ", "a"}

KeyDown == \E key \in Keys, focus \in Cards \cup {NoCard} : KeyDownOn(key, focus)

\* touchstart on a card: the listeners exist on a touch device only
TouchStart ==
    \E card \in Cards :
        /\ ontouchstart
        /\ Len(touchTimers) < MaxTouchTimers
        /\ page' = [page EXCEPT !.touchStarted = @ \cup {card}]
        /\ touchTimers' = Append(touchTimers, card)
        /\ out' = NoEffects
        /\ UNCHANGED <<innerWidth, resizeTimer, ontouchstart>>
        /\ UNCHANGED besidePage

\* the 300 ms timer of the oldest touchstart
TouchTimer ==
    /\ touchTimers # <<>>
    /\ page' = [page EXCEPT !.touchStarted = @ \ {Head(touchTimers)}]
    /\ touchTimers' = Tail(touchTimers)
    /\ out' = NoEffects
    /\ UNCHANGED <<innerWidth, resizeTimer, ontouchstart>>
    /\ UNCHANGED besidePage

\* touchend on a card; the default action it prevents is the click
TouchEndOn(card) ==
    /\ ontouchstart
    /\ page' = IF card \in page.touchStarted
               THEN toggleCertificatePreview(page, card)
               ELSE page
    /\ out' = NoEffects
    /\ UNCHANGED <<innerWidth, resizeTimer, touchTimers, ontouchstart>>
    /\ UNCHANGED besidePage

TouchEnd == \E card \in Cards : TouchEndOn(card)

NoTimers == <<>>

\* the wrapper of debounce(func, delay) called with args while timeoutId
\* names the timers of pending: clearTimeout(timeoutId), then a new timer
debounce(pending, args) == <<args>>

\* a resize event to a new width, through the debounced listener
Resize ==
    \E width \in Widths :
        /\ innerWidth' = width
        /\ resizeTimer' = debounce(resizeTimer, width)
        /\ out' = NoEffects
        /\ UNCHANGED <<page, touchTimers, ontouchstart>>
        /\ UNCHANGED besidePage

\* 250 ms after a resize: func.apply(this, args), func being handleResize
ResizeSettles ==
    /\ resizeTimer # NoTimers
    /\ page' = handleResize(page, innerWidth)
    /\ resizeTimer' = Tail(resizeTimer)
    /\ out' = [NoEffects EXCEPT
                  !.invoked = <<[func |-> "handleResize",
                                 args |-> Head(resizeTimer)]>>]
    /\ UNCHANGED <<innerWidth, touchTimers, ontouchstart>>
    /\ UNCHANGED besidePage

----------------------------------------------------------------------------
(* The typewriter of initTypewriter *)

typewriterSpeed == 100
typewriterDelay == 2000
DeletingSpeed == 50

\* phrases, indexed from 0 as in the code
phrases ==
    [i \in 0..3 |-> <<
      <<"B", "T", "e", "c", "h", " ", "S", "t", "u", "d", "e", "n", "t",
        " ", "|", " ", "A", "s", "p", "i", "r", "i", "n", "g", " ", "D",
        "e", "v", "e", "l", "o", "p", "e", "r">>,
      <<"F", "r", "o", "n", "t", "e", "n", "d", " ", "E", "n", "t", "h",
        "u", "s", "i", "a", "s", "t">>,
      <<"P", "r", "o", "b", "l", "e", "m", " ", "S", "o", "l", "v", "e",
        "r">>,
      <<"C", "r", "e", "a", "t", "i", "v", "e", " ", "T", "h", "i", "n",
        "k", "e", "r">>
    >>[i + 1]]

\* String.prototype.substring(0, end)
Substring(s, end) ==
    SubSeq(s, 1, IF end < 0 THEN 0 ELSE IF end > Len(s) THEN Len(s) ELSE end)

\* typeWriter() moving on to the first phrase again after the third
typeWriter_ThreePhrases(t) ==
    LET current == phrases[t.currentPhrase]
        char == IF t.isDeleting THEN t.currentChar - 1 ELSE t.currentChar + 1
        full == ~ t.isDeleting /\ char = Len(current)
        empty == t.isDeleting /\ char = 0
    IN  [currentPhrase |-> IF empty THEN (t.currentPhrase + 1) % 3
                           ELSE t.currentPhrase,
         currentChar |-> char,
         isDeleting |-> IF full THEN TRUE ELSE IF empty THEN FALSE
                        ELSE t.isDeleting,
         textContent |-> Substring(current, char),
         speed |-> IF full THEN typewriterDelay
                   ELSE IF t.isDeleting THEN DeletingSpeed ELSE typewriterSpeed]

\* typeWriter(): one tick of the loop; speed is the delay of the timer it
\* sets for the next tick
typeWriter(t) ==
    LET current == phrases[t.currentPhrase]
        char == IF t.isDeleting THEN t.currentChar - 1 ELSE t.currentChar + 1
        full == ~ t.isDeleting /\ char = Len(current)
        empty == t.isDeleting /\ char = 0
    IN  [currentPhrase |-> IF empty
                           THEN (t.currentPhrase + 1) % Cardinality(DOMAIN phrases)
                           ELSE t.currentPhrase,
         currentChar |-> char,
         isDeleting |-> IF full THEN TRUE ELSE IF empty THEN FALSE
                        ELSE t.isDeleting,
         textContent |-> Substring(current, char),
         speed |-> IF full THEN typewriterDelay
                   ELSE IF t.isDeleting THEN DeletingSpeed ELSE typewriterSpeed]

\* initTypewriter(): the closure's variables, then the first typeWriter()
InitialTypewriter ==
    typeWriter([currentPhrase |-> 0, currentChar |-> 0, isDeleting |-> FALSE,
                textContent |-> <<>>, speed |-> 0])

\* the timer of the loop
Tick ==
    /\ typewriter' = typeWriter(typewriter)
    /\ out' = NoEffects
    /\ UNCHANGED <<builderVars, pageVars, contactForm, pendingSends, scroller>>

----------------------------------------------------------------------------
(* The contact form *)

\* innerHTML of the submit button before any submission, and while sending
OriginalLabel == "Send Message"
SendingLabel == "<i class=\"fas fa-spinner fa-spin\"></i> Sending..."

\* the form after form.reset()
ResetFields ==
    [name |-> Empty, email |-> Empty, phone |-> Empty, subject |-> Empty,
     message |-> Empty]

InitialContactForm ==
    [fields |-> ResetFields, innerHTML |-> OriginalLabel, disabled |-> FALSE]

TenDigits == <<"0", "1", "2", "3", "4", "5", "6", "7", "8", "9">>
GoodEmail == <<"a", "@", "b", ".", "c">>

GoodContact ==
    [name |-> TxtA, email |-> GoodEmail, phone |-> TenDigits, subject |-> TxtA,
     message |-> TxtA]

\* what the visitor may have typed when the form is submitted
ContactInputs ==
    {GoodContact,
     [GoodContact EXCEPT !.message = TxtB],
     [GoodContact EXCEPT !.phone = <<"+">> \o TenDigits],
     [GoodContact EXCEPT !.name = Blank],
     [GoodContact EXCEPT !.message = Empty],
     [GoodContact EXCEPT !.email = <<"a", "@", "b">>],
     [GoodContact EXCEPT !.email = <<"a", " ", "@", "b", ".", "c">>],
     [GoodContact EXCEPT !.phone = Tail(TenDigits)],
     [GoodContact EXCEPT !.phone = <<"+">> \o Tail(TenDigits)]}

\* /^[^\s@]+@[^\s@]+\.[^\s@]+$/.test(email)
validateEmail(email) ==
    \E at \in 1..Len(email), dot \in 1..Len(email) :
        /\ email[at] = "@"
        /\ email[dot] = "."
        /\ 1 < at
        /\ at + 1 < dot
        /\ dot < Len(email)
        /\ \A k \in 1..Len(email) :
               /\ email[k] \notin Whitespace
               /\ k # at => email[k] # "@"

PhoneChars ==
    {"0", "1", "2", "3", "4", "5", "6", "7", "8", "9", "-", "(", ")"}
        \cup Whitespace

\* /^[\+]?[\d\s\-\(\)]{10,}$/.test(phone)
validatePhone(phone) ==
    LET rest == IF phone # <<>> /\ Head(phone) = "+" THEN Tail(phone) ELSE phone
    IN  /\ Len(rest) >= 10
        /\ \A k \in 1..Len(rest) : rest[k] \in PhoneChars

RequiredContactFields == {"name", "email", "phone", "subject", "message"}

validateContactForm(data) ==
    /\ \A f \in RequiredContactFields :
           Truthy(data[f]) /\ Len(Trim(data[f])) # 0
    /\ validateEmail(data.email)
    /\ validatePhone(data.phone)

\* handleContactForm(e) up to its await, for the values data of the form
handleContactForm(data) ==
    /\ IF ~ validateContactForm(data)
       THEN /\ contactForm' = [contactForm EXCEPT !.fields = data]
            /\ out' = [NoEffects EXCEPT !.notification = <<"error",
                          "Please fill in all required fields correctly.">>]
            /\ UNCHANGED pendingSends
       ELSE /\ contactForm' = [fields |-> data, innerHTML |-> SendingLabel,
                               disabled |-> TRUE]
            /\ pendingSends' = Append(pendingSends,
                                      [originalText |-> contactForm.innerHTML,
                                       data |-> data])
            /\ out' = NoEffects
    /\ UNCHANGED <<builderVars, pageVars, typewriter, scroller>>

\* the submit event of #contactForm
SubmitContact == \E data \in ContactInputs : handleContactForm(data)

\* the 1500 ms timer of the oldest simulateFormSubmission resolves its
\* promise; the handler that awaits it continues: success notification,
\* form.reset(), and the finally block with the originalText of its call
SendCompletes ==
    /\ pendingSends # <<>>
    /\ contactForm' = [fields |-> ResetFields,
                       innerHTML |-> Head(pendingSends).originalText,
                       disabled |-> FALSE]
    /\ pendingSends' = Tail(pendingSends)
    /\ out' = [NoEffects EXCEPT !.notification = <<"success",
                  "Thank you for your message! I will get back to you soon.">>]
    /\ UNCHANGED <<builderVars, pageVars, typewriter, scroller>>

----------------------------------------------------------------------------
(* Scrolling *)

stickyHeaderOffset == 100
BackToTopOffset == 300

\* window.scrollY at a scroll event
ScrollYs == {0, stickyHeaderOffset + 1, BackToTopOffset + 1}

\* the page at the top, the closure of throttle(func, 16) before any call,
\* no timer and no animation frame requested
InitialScroller ==
    [scrollY |-> 0,
     inThrottle |-> FALSE,
     throttleTimers |-> 0,
     isScrolling |-> FALSE,
     frames |-> 0,
     sticky |-> FALSE,
     backToTop |-> [opacity |-> "", pointerEvents |-> ""]]

\* the wrapper of throttle(func, limit) invoking func at every call
throttle_EveryCall(inThrottle) ==
    [invokes |-> TRUE, inThrottle |-> TRUE,
     timers |-> IF inThrottle THEN 0 ELSE 1]

\* the wrapper of throttle(func, limit) called while its closure holds
\* inThrottle: whether it invokes func, the value it leaves in inThrottle
\* and the timers it sets
throttle(inThrottle) ==
    [invokes |-> ~ inThrottle, inThrottle |-> TRUE,
     timers |-> IF inThrottle THEN 0 ELSE 1]

handleScroll(sc) ==
    IF sc.isScrolling THEN sc
    ELSE [sc EXCEPT
             !.isScrolling = TRUE,
             !.sticky = sc.scrollY > stickyHeaderOffset,
             !.backToTop = IF sc.scrollY > BackToTopOffset
                           THEN [opacity |-> "1", pointerEvents |-> "auto"]
                           ELSE [opacity |-> "0", pointerEvents |-> "none"],
             !.frames = @ + 1]

\* a scroll event to position y, through the throttled listener
ScrollTo(y) ==
    LET call == throttle(scroller.inThrottle)
        called == [scroller EXCEPT
                      !.scrollY = y,
                      !.inThrottle = call.inThrottle,
                      !.throttleTimers = @ + call.timers]
    IN  /\ scroller' = IF call.invokes THEN handleScroll(called) ELSE called
        /\ out' = [NoEffects EXCEPT
                      !.invoked = IF call.invokes
                                  THEN <<[func |-> "handleScroll", args |-> y]>>
                                  ELSE <<>>]
        /\ UNCHANGED <<builderVars, pageVars, typewriter, contactForm,
                       pendingSends>>

Scroll == \E y \in ScrollYs : ScrollTo(y)

\* the limit timer of throttle: inThrottle = false
ThrottleTimer ==
    /\ scroller.throttleTimers > 0
    /\ scroller' = [scroller EXCEPT !.inThrottle = FALSE,
                                    !.throttleTimers = @ - 1]
    /\ out' = NoEffects
    /\ UNCHANGED <<builderVars, pageVars, typewriter, contactForm, pendingSends>>

\* the callback handleScroll gave to requestAnimationFrame
AnimationFrame ==
    /\ scroller.frames > 0
    /\ scroller' = [scroller EXCEPT !.isScrolling = FALSE, !.frames = @ - 1]
    /\ out' = NoEffects
    /\ UNCHANGED <<builderVars, pageVars, typewriter, contactForm, pendingSends>>

----------------------------------------------------------------------------
(* Initial state: the globals of lines 1753-1758 and showPortfolioStep(1) *)

InitBuilder ==
    /\ portfolioCurrentStep = 1
    /\ portfolioSkills = <<>>
    /\ portfolioCertificates = <<>>
    /\ portfolioWorkExperience = <<>>
    /\ portfolioProjectCount = 1
    /\ field = InitialField
    /\ certImageFile = NoFile
    /\ projectCards = <<EmptyProjectCard>>
    /\ ui = ShowStepDisplay(1)
    /\ modalActive = FALSE
    /\ lists = [portfolioSkillsList |-> <<>>, portfolioCertsList |-> <<>>,
                portfolioWorkList |-> <<>>]
    /\ pendingReads = <<>>
    /\ timers = <<>>
    /\ out = NoEffects

\* the page after init(), with the first tick of the typewriter done
InitBeside ==
    /\ typewriter = InitialTypewriter
    /\ contactForm = InitialContactForm
    /\ pendingSends = <<>>
    /\ scroller = InitialScroller

InitSite ==
    /\ page = InitialPage
    /\ innerWidth = DesktopBreakpoint + 1
    /\ resizeTimer = NoTimers
    /\ touchTimers = <<>>
    /\ InitBeside

Init ==
    /\ InitBuilder
    /\ InitSite
    /\ ontouchstart = FALSE

\* the page on a desktop or on a touch device, narrow or wide
InitPage ==
    /\ InitBuilder
    /\ page = InitialPage
    /\ innerWidth \in Widths
    /\ resizeTimer = NoTimers
    /\ touchTimers = <<>>
    /\ ontouchstart \in BOOLEAN
    /\ InitBeside

NextContact ==
    \/ Len(pendingSends) < MaxPendingSends /\ SubmitContact
    \/ SendCompletes

\* submissions of the contact form and their simulated sends
SpecContact == Init /\ [][NextContact]_vars

NextCalls ==
    \/ Scroll
    \/ ThrottleTimer
    \/ AnimationFrame
    \/ Resize
    \/ ResizeSettles
    \/ ClickMenuToggle

\* the throttled scroll listener and the debounced resize listener
SpecCalls == InitPage /\ [][NextCalls]_vars

\* a timer that stays set runs: the limit timer of throttle, and the delay
\* timer of debounce once the burst of calls is over
FairSpecCalls ==
    SpecCalls /\ WF_vars(ThrottleTimer) /\ WF_vars(ResizeSettles)

NextTypewriter == Tick

\* the typewriter loop alone
SpecTypewriter == Init /\ [][NextTypewriter]_vars

\* every timer set by setTimeout runs
FairSpecTypewriter == SpecTypewriter /\ WF_vars(Tick)

NextPage ==
    \/ ClickMenuToggle
    \/ ClickNavLink
    \/ ClickCard
    \/ ClickElsewhere
    \/ KeyDown
    \/ TouchStart
    \/ TouchTimer
    \/ TouchEnd
    \/ Resize
    \/ ResizeSettles

\* the mobile menu and the certificate cards under clicks, keys, touches
\* and resizes
SpecPage == InitPage /\ [][NextPage]_vars

NextNav ==
    \/ nextPortfolioStep
    \/ previousPortfolioStep
    \/ selectPortfolioDomain
    \/ TypeRequiredField
    \/ TypeProjectCard

\* the step navigation of the wizard
SpecNav == Init /\ [][NextNav]_vars

NextLists ==
    \/ addPortfolioSkill
    \/ removePortfolioSkill
    \/ addPortfolioCertificate
    \/ ReadCompletes
    \/ removePortfolioCert
    \/ addPortfolioWork
    \/ removePortfolioWork

\* the three accumulated lists
SpecLists == Init /\ [][NextLists]_vars

\* how far the session is from the initial state
Abs(n) == IF n < 0 THEN -n ELSE n

Perturbation ==
    Len(portfolioSkills) + Len(portfolioCertificates) + Len(pendingReads)
    + Len(portfolioWorkExperience) + (portfolioProjectCount - 1)
    + Cardinality({f \in FormFields : field[f] # Empty})
    + (IF certImageFile # NoFile THEN 1 ELSE 0)
    + Abs(portfolioCurrentStep - 1)

SessionEdit(A) == Perturbation < MaxSessionEdits /\ A

NextGen ==
    \/ SessionEdit(addPortfolioSkill)
    \/ SessionEdit(addPortfolioCertificate)
    \/ ReadCompletes
    \/ SessionEdit(addPortfolioWork)
    \/ SessionEdit(addPortfolioProjectField)
    \/ SessionEdit(selectPortfolioDomain)
    \/ SessionEdit(selectPortfolioTheme)
    \/ SessionEdit(previousPortfolioStep)
    \/ openPortfolioModal
    \/ (PendingResets < MaxPendingGenerations /\ createPortfolioFromBuilder)
    \/ DownloadOffer
    \/ Reset

\* a session of the wizard that ends in generations
SpecGen == Init /\ [][NextGen]_vars

\* a timer that is due runs: the event loop is never busy for ever
FairSpecGen == SpecGen /\ WF_vars(DownloadOffer) /\ WF_vars(Reset)

\* the snapshots handed to the generator
BaseSnapshot ==
    [fullName |-> TxtPaddedA, email |-> Empty, title |-> TxtB, bio |-> Empty,
     profileImage |-> Empty, domain |-> Empty, experience |-> Empty,
     skills |-> <<>>, projects |-> <<>>, certificates |-> <<>>,
     workExperience |-> <<>>, education |-> Empty, phone |-> Empty,
     location |-> Empty, linkedin |-> Empty, github |-> Empty,
     website |-> Empty, twitter |-> Empty, theme |-> Empty]

FullSnapshot ==
    [BaseSnapshot EXCEPT
        !.skills = <<TxtA, TxtB>>,
        !.projects = <<[name |-> TxtA, desc |-> TxtB, image |-> Empty,
                        link |-> TxtA, github |-> Empty]>>,
        !.certificates = <<[name |-> TxtA, issuer |-> TxtB, image |-> Null]>>,
        !.workExperience = <<[title |-> TxtA, company |-> TxtB, desc |-> Empty]>>,
        !.education = Blank]

SectionFields ==
    {"skills", "projects", "certificates", "workExperience", "education"}

\* a snapshot with the backing data of the sections of `present` only
WithSections(present) ==
    [k \in DOMAIN BaseSnapshot |->
        IF k \in present THEN FullSnapshot[k] ELSE BaseSnapshot[k]]

SectionSnapshots == {WithSections(present) : present \in SUBSET SectionFields}

ThemeSnapshots ==
    {[BaseSnapshot EXCEPT !.theme = t] :
        t \in {Empty, Dark, Blue, Green, Orange, Pink, Purple, ThemeConstructor,
               ThemeToString}}

ContactFields ==
    {"email", "phone", "location", "linkedin", "github", "website", "twitter"}

ContactSnapshots ==
    {[k \in DOMAIN BaseSnapshot |->
        IF k \in present THEN value ELSE BaseSnapshot[k]] :
        present \in {{k} : k \in ContactFields}
                    \cup {ContactFields \ {k} : k \in ContactFields},
        value \in {TxtA, Blank}}

Snapshots == SectionSnapshots \cup ThemeSnapshots \cup ContactSnapshots

\* a call of the generator on a snapshot
generate == \E data \in Snapshots : generatePortfolioHTML(data)

NextDoc ==
    \/ (PendingResets < MaxPendingGenerations /\ generate)
    \/ DownloadOffer
    \/ Reset

\* the generator as a function of its snapshot
SpecDoc == Init /\ [][NextDoc]_vars

NextResubmit ==
    \/ selectPortfolioTheme
    \/ addPortfolioProjectField
    \/ openPortfolioModal
    \/ (PendingResets < MaxResubmissions /\ createPortfolioFromBuilder)
    \/ DownloadOffer
    \/ Reset

\* the form submitted again while earlier generations are still in flight
SpecResubmit == Init /\ [][NextResubmit]_vars

\* what the user types as the name of the k-th entry added to a list
CallNames == <<"1", "2", "3", "4", "5", "6">>
CallName(k) == <<CallNames[k]>>

\* the user adds one more skill, named after the number of the call
AddNextSkill == addPortfolioSkillTyped(CallName(Len(portfolioSkills) + 1))

\* the user adds one more work entry
AddNextWork ==
    addPortfolioWorkTyped(CallName(Len(portfolioWorkExperience) + 1),
                          TxtPaddedA, Empty)

\* the user adds one more certificate, with or without an image
AddNextCertificate ==
    \E imageFile \in ImageFiles \cup {NoFile} :
        addPortfolioCertificateTyped(
            CallName(Len(portfolioCertificates) + Len(pendingReads) + 1),
            TxtB, imageFile)

NextAdds ==
    \/ AddNextSkill
    \/ AddNextWork
    \/ AddNextCertificate
    \/ ReadCompletes

\* entries added one after the other, each named after its call
SpecAdds == Init /\ [][NextAdds]_vars

\* a read in flight completes: the browser delivers its load event
FairSpecAdds == SpecAdds /\ WF_vars(ReadCompletes)

\* a generation whose preview window the browser blocks
GenerateBlocked ==
    /\ PendingResets < MaxPendingGenerations
    /\ createPortfolioFromBuilder
    /\ out'.windowOpen = "null"

\* an add while the three lists and the reads in flight together hold
\* fewer than MaxListLen entries
ListEdit(A) ==
    /\ Len(portfolioSkills) + Len(portfolioCertificates) + Len(pendingReads)
           + Len(portfolioWorkExperience) < MaxListLen
    /\ A

NextRender ==
    \/ ListEdit(AddNextSkill)
    \/ removePortfolioSkill
    \/ ListEdit(AddNextCertificate)
    \/ ReadCompletes
    \/ removePortfolioCert
    \/ ListEdit(AddNextWork)
    \/ removePortfolioWork
    \/ GenerateBlocked
    \/ Reset

\* the lists edited, generated from and reset, with reads in flight
SpecRender == Init /\ [][NextRender]_vars

\* what the user leaves in the inputs of a certificate and of a work entry
CertNamesTyped == {Blank, TxtA}
CertIssuersTyped == {Empty, TxtB}
WorkTitlesTyped == {Blank, TxtA}
WorkCompaniesTyped == {Empty, TxtPaddedA}
WorkDescsTyped == {Empty, Blank, TxtB}

\* addPortfolioCertificate() with any of the inputs left empty or filled
AddCertificateAnyInput ==
    \E typedName \in CertNamesTyped, typedIssuer \in CertIssuersTyped,
       imageFile \in ImageFiles \cup {NoFile} :
        addPortfolioCertificateTyped(typedName, typedIssuer, imageFile)

\* addPortfolioWork() with any of the inputs left empty or filled
AddWorkAnyInput ==
    \E typedTitle \in WorkTitlesTyped, typedCompany \in WorkCompaniesTyped,
       typedDesc \in WorkDescsTyped :
        addPortfolioWorkTyped(typedTitle, typedCompany, typedDesc)

NextRefusals ==
    \/ ListEdit(AddNextSkill)
    \/ ListEdit(AddCertificateAnyInput)
    \/ ReadCompletes
    \/ ListEdit(AddWorkAnyInput)

\* adds with incomplete inputs among adds that are accepted
SpecRefusals == Init /\ [][NextRefusals]_vars

NextLateRead ==
    \/ openPortfolioModal
    \/ (modalActive /\ AddNextCertificate)
    \/ ReadCompletes
    \/ (PendingResets < MaxPendingGenerations /\ createPortfolioFromBuilder)
    \/ DownloadOffer
    \/ Reset

\* certificates added in the open modal only, with reads that outlive the
\* generation that closes it
SpecLateRead == Init /\ [][NextLateRead]_vars

\* the form submitted again, the preview blocked, while earlier resets are
\* still to come
ResubmitBlocked ==
    /\ PendingResets < MaxResubmissions
    /\ createPortfolioFromBuilder
    /\ out'.windowOpen = "null"

NextDiscard ==
    \/ openPortfolioModal
    \/ ListEdit(AddNextSkill)
    \/ ListEdit(AddNextCertificate)
    \/ ReadCompletes
    \/ ListEdit(AddNextWork)
    \/ previousPortfolioStep
    \/ ResubmitBlocked
    \/ Reset

\* the modal opened again and the session edited between a generation and
\* its reset
SpecDiscard == Init /\ [][NextDiscard]_vars

\* a reset timer that is due runs
FairSpecDiscard == SpecDiscard /\ WF_vars(Reset)

NextProjects ==
    \/ TypeProjectCard
    \/ addPortfolioProjectField
    \/ GenerateBlocked
    \/ Reset

\* the project sub-forms edited and submitted
SpecProjects == Init /\ [][NextProjects]_vars

NextRetreat ==
    \/ ListEdit(AddNextSkill)
    \/ ListEdit(AddNextCertificate)
    \/ ReadCompletes
    \/ ListEdit(AddNextWork)
    \/ addPortfolioProjectField
    \/ previousPortfolioStep

\* the user goes back while the lists are filled
SpecRetreat == Init /\ [][NextRetreat]_vars

----------------------------------------------------------------------------
(* Properties of the step navigation *)

\* C1: in every state reached by calls of nextPortfolioStep and
\* previousPortfolioStep, 1 <= portfolioCurrentStep <= portfolioTotalSteps.
C1_StepInRange ==
    1 <= portfolioCurrentStep /\ portfolioCurrentStep <= portfolioTotalSteps

\* every required input of the step has a value that is not empty once trimmed
AllRequiredFilled(step) ==
    \A i \in 1..Len(RequiredInputs(step)) :
        Trim(RequiredInputs(step)[i].value) # Empty

DomainChosen == field["portfolioSelectedDomain"] # Empty

StepIsValid(step) == AllRequiredFilled(step) /\ (step = 2 => DomainChosen)

\* C2: nextPortfolioStep increments portfolioCurrentStep only if every
\* required input of the current step is non-empty after trimming and, on
\* step 2, a domain is chosen; when the validation fails the step is unchanged.
C2_AdvanceOnlyIfValid ==
    [][nextPortfolioStep =>
           /\ portfolioCurrentStep' # portfolioCurrentStep =>
                  StepIsValid(portfolioCurrentStep)
           /\ ~StepIsValid(portfolioCurrentStep) =>
                  /\ portfolioCurrentStep' = portfolioCurrentStep
                  /\ ui' = ui
                  /\ out'.alerts # <<>>]_vars

\* the wizard left the domain step forward
C2_Witness ==
    /\ portfolioCurrentStep = 3
    /\ ui.activeStep = 3
    /\ field["portfolioFullName"] = TxtPaddedA

\* C3: every change of portfolioCurrentStep made by nextPortfolioStep is +1
\* and every change made by previousPortfolioStep is -1: no navigation
\* operation skips a step or jumps.
C3_LinearSteps ==
    [][/\ nextPortfolioStep =>
              portfolioCurrentStep' \in
                  {portfolioCurrentStep, portfolioCurrentStep + 1}
       /\ previousPortfolioStep =>
              portfolioCurrentStep' = portfolioCurrentStep - 1]_vars

\* the wizard walked the whole sequence, step by step, to the last step
C3_Witness ==
    /\ portfolioCurrentStep = portfolioTotalSteps
    /\ ui.activeStep = portfolioTotalSteps
    /\ ui.createBtn = "block"

----------------------------------------------------------------------------
(* Properties of the accumulated lists *)

\* C4: after any sequence of addPortfolioSkill and removePortfolioSkill,
\* portfolioSkills holds no two equal strings.
C4_NoDuplicateSkills ==
    \A i, j \in 1..Len(portfolioSkills) :
        i # j => portfolioSkills[i] # portfolioSkills[j]

\* a skill typed a second time, with blanks around it, was refused, next to
\* a skill that differs from it by case only
C4_Witness ==
    /\ field["portfolioSkillInput"] = TxtPaddedA
    /\ portfolioSkills = <<TxtA, TxtUpperA>>

\* `after` is `before` with the entry at 0-based position index excised and
\* the later entries shifted down by one
Excised(before, after, index) ==
    /\ index \in 0..(Len(before) - 1)
    /\ Len(after) = Len(before) - 1
    /\ \A j \in 1..Len(after) :
           after[j] = IF j <= index THEN before[j] ELSE before[j + 1]

\* C5: for each of the three lists and every position i, remove(i) yields
\* the list with the entry at i excised and the later entries shifted down
\* by one; the other two lists are untouched.
C5_RemoveExcises ==
    [][\A index \in 0..(MaxListLen - 1) :
           /\ (index < Len(portfolioSkills) /\ removePortfolioSkillAt(index)) =>
                  /\ Excised(portfolioSkills, portfolioSkills', index)
                  /\ UNCHANGED <<portfolioCertificates, portfolioWorkExperience>>
           /\ (index < Len(portfolioCertificates) /\ removePortfolioCertAt(index)) =>
                  /\ Excised(portfolioCertificates, portfolioCertificates', index)
                  /\ UNCHANGED <<portfolioSkills, portfolioWorkExperience>>
           /\ (index < Len(portfolioWorkExperience) /\ removePortfolioWorkAt(index)) =>
                  /\ Excised(portfolioWorkExperience, portfolioWorkExperience', index)
                  /\ UNCHANGED <<portfolioSkills, portfolioCertificates>>]_vars

\* a skill that was refused as a duplicate is no longer in the list: it was
\* removed, and the other skill and the other two lists are still there
C5_Witness ==
    /\ field["portfolioSkillInput"] = TxtPaddedA
    /\ portfolioSkills = <<TxtUpperA>>
    /\ Len(portfolioCertificates) = MaxListLen
    /\ Len(portfolioWorkExperience) > 0

SizeLimitMessage == "Image file size should be less than 5MB"

\* C6: addPortfolioCertificate with a name, an issuer and an image larger
\* than 5 MB leaves portfolioCertificates unchanged, starts no read and
\* shows exactly one size-limit message; an image of at most 5 MB is
\* accepted: its read is started.
C6_ImageSizeLimit ==
    [][\A typedName \in {TxtA, TxtPaddedA}, typedIssuer \in {TxtB},
          imageFile \in ImageFiles :
           addPortfolioCertificateTyped(typedName, typedIssuer, imageFile) =>
               IF imageFile.size > 5 * 1024 * 1024
               THEN /\ UNCHANGED <<portfolioCertificates, pendingReads, lists>>
                    /\ out'.alerts = <<SizeLimitMessage>>
               ELSE /\ UNCHANGED <<portfolioCertificates, lists>>
                    /\ out'.alerts = <<>>
                    /\ Len(pendingReads') = Len(pendingReads) + 1
                    /\ pendingReads'[Len(pendingReads')].file = imageFile]_vars

\* an image one byte over the limit was refused while a read of an image of
\* exactly 5 MB is in flight
C6_Witness ==
    /\ out.alerts = <<SizeLimitMessage>>
    /\ certImageFile.size = MaxImageBytes + 1
    /\ Len(pendingReads) = 1
    /\ pendingReads[1].file.size = MaxImageBytes

----------------------------------------------------------------------------
(* Properties of the generation *)

\* the WizardState as it is after construction
WizardInitial ==
    /\ portfolioSkills = <<>>
    /\ portfolioCertificates = <<>>
    /\ portfolioWorkExperience = <<>>
    /\ portfolioProjectCount = 1
    /\ field["portfolioSelectedDomain"] = Empty
    /\ field["portfolioSelectedTheme"] = Empty
    /\ portfolioCurrentStep = 1

\* C7: after generatePortfolioHTML has been invoked, whatever the user
\* answers to the download confirmation, the WizardState eventually equals
\* its initial state: the three lists empty, portfolioProjectCount = 1, the
\* domain and the theme cleared, portfolioCurrentStep = 1. Every generation
\* leaves a reset pending, and a pending reset runs and leaves that state.
C7_EventuallyReset == (PendingResets > 0) ~> WizardInitial

\* the user accepted the download of a generation made from an edited
\* session whose reset is still to come
C7_Witness ==
    /\ out.confirms = 1
    /\ out.saved # Empty
    /\ timers = <<ResetTimerEntry>>
    /\ ~WizardInitial

\* C8: when window.open returns null the generation raises no error and the
\* download of the generated document is still offered: its timer is pending.
C8_DownloadOfferedWhenBlocked ==
    out.windowOpen = "null" =>
        /\ ~out.threw
        /\ out.alerts = <<>>
        /\ \E i \in 1..Len(timers) :
               timers[i].kind = "download" /\ timers[i].data = out.data

SectionTitles(doc) == {doc.sections[i].tag : i \in 1..Len(doc.sections)}
HeaderTexts(doc) == {<<doc.header[i].tag, doc.header[i].texts>> :
                        i \in 1..Len(doc.header)}

\* C9: each of the five sections is in the generated document if and only
\* if its own backing data is non-empty, whatever the other four are; the
\* header block with the name and the title and the contact section are in
\* every document.
C9_SectionsIffData ==
    out.windowOpen = "window" =>
        LET data == out.data
            doc == out.written
        IN  /\ "Skills & Expertise" \in SectionTitles(doc) <=> data.skills # <<>>
            /\ "Featured Projects" \in SectionTitles(doc) <=> data.projects # <<>>
            /\ "Work Experience" \in SectionTitles(doc)
                   <=> data.workExperience # <<>>
            /\ "Certificates & Achievements" \in SectionTitles(doc)
                   <=> data.certificates # <<>>
            /\ "Education" \in SectionTitles(doc) <=> data.education # Empty
            /\ Len(doc.sections) = Cardinality(SectionTitles(doc))
            /\ <<"h1", <<data.fullName>>>> \in HeaderTexts(doc)
            /\ <<"tagline", <<data.title>>>> \in HeaderTexts(doc)
            /\ doc.contact.tag = "Get In Touch"

\* a document was generated from a snapshot whose only backing data are the
\* certificates
C9_Witness ==
    /\ out.windowOpen = "window"
    /\ out.data.certificates # <<>>
    /\ out.data.workExperience = <<>>
    /\ Len(out.written.sections) = 1

BuiltInThemes == {Dark, Blue, Green, Orange, Pink}

\* C10: the palette of the generated document is the one of the snapshot's
\* theme when the theme is one of the five built-in names, and the dark
\* palette for every other theme value.
C10_PaletteOfTheme ==
    out.windowOpen = "window" =>
        /\ out.data.theme \in BuiltInThemes =>
               out.written.style = themeColors[out.data.theme]
        /\ out.data.theme = Green =>
               /\ out.written.style.primary = "#10b981"
               /\ out.written.style.secondary = "#047857"
        /\ out.data.theme \notin BuiltInThemes =>
               /\ out.written.style.primary = "#667eea"
               /\ out.written.style.secondary = "#764ba2"

\* the download timers in flight: each holds the snapshot and the document
\* of its generation
PendingDownloads == {i \in 1..Len(timers) : timers[i].kind = "download"}

----------------------------------------------------------------------------
(* Properties of the order of the lists and of the image reads *)

\* the number of the add call that typed this name
CallNumber(name) == CHOOSE k \in 1..Len(CallNames) : CallNames[k] = name[1]

\* the entries are in the order of the calls that added them
InCallOrder(names) ==
    \A i, j \in 1..Len(names) :
        i < j => CallNumber(names[i]) < CallNumber(names[j])

\* C12: each accumulated list is insertion-ordered: the entry of an earlier
\* accepted add call precedes the entry of a later one, for the skills, the
\* work entries and the certificates, whatever the mix of certificates with
\* and without an image and whatever the order in which the reads complete.
C12_InsertionOrdered ==
    /\ InCallOrder(portfolioSkills)
    /\ InCallOrder([i \in 1..Len(portfolioWorkExperience) |->
                       portfolioWorkExperience[i].title])
    /\ InCallOrder([i \in 1..Len(portfolioCertificates) |->
                       portfolioCertificates[i].name])

\* the certificate built by the k-th add call, before its image is read
CertOfCall(k) == [name |-> CallName(k), issuer |-> TxtB, image |-> Null]

ReadsOfCall(k) ==
    {r \in 1..Len(pendingReads) : pendingReads[r].cert = CertOfCall(k)}
EntriesOfCall(k) ==
    {i \in 1..Len(portfolioCertificates) :
        portfolioCertificates[i].name = CallName(k)}

\* the operations of the wizard that do not add to a list that is full
OtherOperationsEnabled ==
    /\ ENABLED nextPortfolioStep
    /\ ENABLED previousPortfolioStep
    /\ ENABLED selectPortfolioDomain
    /\ ENABLED selectPortfolioTheme
    /\ ENABLED openPortfolioModal
    /\ ENABLED createPortfolioFromBuilder
    /\ ENABLED removePortfolioSkillAt(0)
    /\ ENABLED removePortfolioCertAt(0)
    /\ ENABLED removePortfolioWorkAt(0)
    /\ Len(portfolioSkills) < MaxListLen => ENABLED AddNextSkill
    /\ Len(portfolioWorkExperience) < MaxListLen => ENABLED AddNextWork
    /\ (Len(portfolioCertificates) + Len(pendingReads) < MaxListLen
        /\ Len(pendingReads) < MaxPendingReads) =>
           \A imageFile \in ImageFiles \cup {NoFile} :
               ENABLED addPortfolioCertificateTyped(TxtA, TxtB, imageFile)

\* C13: an accepted addPortfolioCertificate call with an image leaves
\* portfolioCertificates unchanged during the call; the certificate is
\* appended exactly once, with its image set, when the read of that call
\* completes. The reads of several calls are independent: each read in
\* flight eventually appends exactly its own certificate, and every other
\* operation of the wizard stays enabled while reads are in flight.
C13_AsyncImageRead ==
    /\ [][\A imageFile \in ImageFiles :
             \A k \in 1..Len(CallNames) :
               (~TooBig(imageFile)
                /\ addPortfolioCertificateTyped(CallName(k), TxtB, imageFile)) =>
                   /\ UNCHANGED <<portfolioCertificates, lists>>
                   /\ pendingReads' =
                          Append(pendingReads,
                                 [cert |-> CertOfCall(k), file |-> imageFile])]_vars
    /\ [][\A r \in 1..MaxPendingReads :
             (r <= Len(pendingReads) /\ readerOnload(r)) =>
                 /\ portfolioCertificates' =
                        Append(portfolioCertificates,
                               [name |-> pendingReads[r].cert.name,
                                issuer |-> pendingReads[r].cert.issuer,
                                image |-> DataURL(pendingReads[r].file)])
                 /\ Truthy(portfolioCertificates'[Len(portfolioCertificates')].image)
                 /\ Len(pendingReads') = Len(pendingReads) - 1
                 /\ \A q \in 1..Len(pendingReads') :
                        pendingReads'[q] = pendingReads[IF q < r THEN q ELSE q + 1]
             ]_vars
    /\ [](\A k \in 1..Len(CallNames) :
             Cardinality(ReadsOfCall(k)) + Cardinality(EntriesOfCall(k)) <= 1)
    /\ [](pendingReads # <<>> => OtherOperationsEnabled)
    /\ \A k \in 1..Len(CallNames) :
           (ReadsOfCall(k) # {}) ~>
               (\E i \in EntriesOfCall(k) :
                    /\ ReadsOfCall(k) = {}
                    /\ portfolioCertificates[i].issuer = TxtB
                    /\ Truthy(portfolioCertificates[i].image))

\* the read of the second call completed while the read of the first call
\* is still in flight
C13_Witness ==
    /\ Len(pendingReads) = 1
    /\ pendingReads[1].cert = CertOfCall(1)
    /\ Len(portfolioCertificates) = 1
    /\ portfolioCertificates[1].name = CallName(2)
    /\ portfolioCertificates[1].image = DataURL(pendingReads[1].file)

\* the rendered items show the given texts, in order, and the remove
\* control of the item at 0-based position i calls removeFn(i)
Shows(rendered, texts, removeFn) ==
    /\ Len(rendered) = Len(texts)
    /\ \A i \in 1..Len(rendered) :
           /\ rendered[i].texts = texts[i]
           /\ rendered[i].onclick = removeFn
           /\ rendered[i].index = i - 1

\* C14: after every completed handler (add, remove, completion of an image
\* read, reset after a generation) the rendered content of each of the three
\* list containers is the content of its backing list: the same entries in
\* the same order, the remove control of each entry carrying the entry's
\* current position.
C14_RenderedIsBacking ==
    /\ Shows(lists.portfolioSkillsList,
             [i \in 1..Len(portfolioSkills) |-> <<portfolioSkills[i]>>],
             "removePortfolioSkill")
    /\ Shows(lists.portfolioCertsList,
             [i \in 1..Len(portfolioCertificates) |->
                 <<portfolioCertificates[i].name, portfolioCertificates[i].issuer>>],
             "removePortfolioCert")
    /\ Shows(lists.portfolioWorkList,
             [i \in 1..Len(portfolioWorkExperience) |->
                 <<portfolioWorkExperience[i].title,
                   portfolioWorkExperience[i].company,
                   portfolioWorkExperience[i].desc>>],
             "removePortfolioWork")

\* a reset is pending for a generation; since then the first certificate was
\* removed and a read completed, and the certificate list shows the two that
\* remain at positions 0 and 1
C14_Witness ==
    /\ timers = <<ResetTimerEntry>>
    /\ Len(portfolioCertificates) = 2
    /\ portfolioCertificates[1].name = CallName(2)
    /\ portfolioCertificates[2].image # Null
    /\ lists.portfolioCertsList[2].index = 1

----------------------------------------------------------------------------
(* Properties of the validation and of the retreat *)

\* the first input of the step, in document order, whose trimmed value is
\* empty; the domain input when every required input is filled
FirstOffending(step) ==
    LET inputs == RequiredInputs(step)
        empties == {i \in 1..Len(inputs) : Trim(inputs[i].value) = Empty}
    IN  IF empties = {} THEN "portfolioSelectedDomain"
        ELSE inputs[CHOOSE i \in empties : \A j \in empties : i <= j].id

\* C15: a failed validatePortfolioStep shows exactly one message however
\* many inputs of the step are invalid, and gives the focus to the first
\* offending input in document order, for both kinds of failure: an empty
\* required input and a missing domain on step 2.
C15_OneMessageFirstFocus ==
    [][(nextPortfolioStep /\ portfolioCurrentStep \in StepElements
        /\ ~StepIsValid(portfolioCurrentStep)) =>
           /\ Len(out'.alerts) = 1
           /\ out'.focus = FirstOffending(portfolioCurrentStep)]_vars

\* C16: previousPortfolioStep decrements portfolioCurrentStep by exactly one
\* in every state in which it is called, without evaluating any validation:
\* it shows no validation message, focuses nothing, and leaves the skills,
\* the certificates, the work entries and portfolioProjectCount unchanged.
C16_RetreatUnconditional ==
    /\ [][previousPortfolioStep =>
             /\ portfolioCurrentStep' = portfolioCurrentStep - 1
             /\ out'.alerts = <<>>
             /\ out'.focus = ""
             /\ UNCHANGED <<portfolioSkills, portfolioCertificates,
                            portfolioWorkExperience, portfolioProjectCount>>]_vars
    /\ [](portfolioCurrentStep > 1 - MaxUnderflow => ENABLED previousPortfolioStep)

\* the user went back from the first step, whose required inputs are empty,
\* with entries in the lists and a second project sub-form
C16_Witness ==
    /\ portfolioCurrentStep = 0
    /\ out.threw
    /\ ~StepIsValid(1)
    /\ portfolioSkills # <<>>
    /\ portfolioCertificates # <<>>
    /\ portfolioProjectCount = 2

----------------------------------------------------------------------------
(* Properties of the contact section and of the harvested projects *)

\* the entries of the contact section that carry the label
ContactEntries(doc, label) ==
    {i \in 1..Len(doc.contact.parts) : doc.contact.parts[i].label = label}

\* the channel has exactly one entry when its value is non-empty and none
\* otherwise
ChannelIffValue(doc, label, value) ==
    Cardinality(ContactEntries(doc, label)) = IF value # Empty THEN 1 ELSE 0

\* every entry of the channel is a link to href
IsLinkTo(doc, label, href) ==
    \A i \in ContactEntries(doc, label) :
        /\ doc.contact.parts[i].element = "a"
        /\ doc.contact.parts[i].href = href

\* C17: the contact section of the generated document has an entry for a
\* channel if and only if the channel's value in the snapshot is non-empty;
\* the email is a mailto link, the phone a tel link, the location plain text
\* and LinkedIn, GitHub, website and the social handle links to their value.
C17_ContactChannels ==
    out.windowOpen = "window" =>
        LET data == out.data
            doc == out.written
        IN  /\ ChannelIffValue(doc, "Email", data.email)
            /\ ChannelIffValue(doc, "Phone", data.phone)
            /\ ChannelIffValue(doc, "Location", data.location)
            /\ ChannelIffValue(doc, "LinkedIn", data.linkedin)
            /\ ChannelIffValue(doc, "GitHub", data.github)
            /\ ChannelIffValue(doc, "Website", data.website)
            /\ ChannelIffValue(doc, "Twitter", data.twitter)
            /\ Len(doc.contact.parts) =
                   Cardinality({k \in ContactFields : data[k] # Empty})
            /\ IsLinkTo(doc, "Email", <<"m", "a", "i", "l", "t", "o", ":">>
                                         \o data.email)
            /\ IsLinkTo(doc, "Phone", <<"t", "e", "l", ":">> \o data.phone)
            /\ \A i \in ContactEntries(doc, "Location") :
                   /\ doc.contact.parts[i].element = "span"
                   /\ doc.contact.parts[i].href = Null
                   /\ doc.contact.parts[i].text = data.location
            /\ IsLinkTo(doc, "LinkedIn", data.linkedin)
            /\ IsLinkTo(doc, "GitHub", data.github)
            /\ IsLinkTo(doc, "Website", data.website)
            /\ IsLinkTo(doc, "Twitter", data.twitter)

\* a document was generated from a snapshot with every channel but the email
C17_Witness ==
    /\ out.windowOpen = "window"
    /\ out.data.email = Empty
    /\ out.data.location = TxtA
    /\ Len(out.written.contact.parts) = 6

\* C18: the snapshot built at submission contains at least one project: its
\* projects sequence has one entry, in sub-form order, for each project
\* sub-form present at submission time, and every entry has a non-empty name
\* and a non-empty description (image and links may be empty).
C18_ProjectPerSubForm ==
    out.windowOpen # "none" =>
        LET projects == out.data.projects
        IN  /\ Len(projects) >= 1
            /\ Len(projects) = Len(projectCards)
            /\ \A i \in 1..Len(projects) :
                   /\ projects[i].name = Trim(projectCards[i].name)
                   /\ projects[i].desc = Trim(projectCards[i].desc)
                   /\ projects[i].name # Empty
                   /\ projects[i].desc # Empty

----------------------------------------------------------------------------
(* Properties of the add handlers *)

\* C19: addPortfolioCertificate with an empty (after trimming) name or
\* issuer, and addPortfolioWork with an empty title or company, leave every
\* list unchanged and start no image read; addPortfolioWork with a title and
\* a company and an empty description appends exactly one entry.
C19_AddRequiresInputs ==
    /\ [][\A typedName \in CertNamesTyped, typedIssuer \in CertIssuersTyped,
            imageFile \in ImageFiles \cup {NoFile} :
             ((Trim(typedName) = Empty \/ Trim(typedIssuer) = Empty)
              /\ addPortfolioCertificateTyped(typedName, typedIssuer, imageFile)) =>
                 UNCHANGED <<portfolioSkills, portfolioCertificates,
                             portfolioWorkExperience, pendingReads, lists>>]_vars
    /\ [][\A typedTitle \in WorkTitlesTyped, typedCompany \in WorkCompaniesTyped,
            typedDesc \in WorkDescsTyped :
             LET refused == Trim(typedTitle) = Empty \/ Trim(typedCompany) = Empty
             IN  addPortfolioWorkTyped(typedTitle, typedCompany, typedDesc) =>
                     /\ refused =>
                            UNCHANGED <<portfolioSkills, portfolioCertificates,
                                        portfolioWorkExperience, pendingReads,
                                        lists>>
                     /\ (~refused /\ Trim(typedDesc) = Empty) =>
                            /\ portfolioWorkExperience' =
                                   Append(portfolioWorkExperience,
                                          [title |-> Trim(typedTitle),
                                           company |-> Trim(typedCompany),
                                           desc |-> Empty])
                            /\ UNCHANGED <<portfolioSkills, portfolioCertificates,
                                           pendingReads>>]_vars

\* a certificate with a blank name and an image of accepted size was
\* refused, next to a work entry that was accepted without a description
C19_Witness ==
    /\ field["portfolioCertName"] = Blank
    /\ field["portfolioCertIssuer"] = TxtB
    /\ certImageFile.size = MaxImageBytes
    /\ pendingReads = <<>>
    /\ portfolioCertificates = <<>>
    /\ Len(portfolioWorkExperience) = 1
    /\ portfolioWorkExperience[1].desc = Empty

\* each typed skill without the blanks around it
TrimmedSkill ==
    (Blank :> Empty) @@ (TxtA :> TxtA) @@ (TxtPaddedA :> TxtA)
    @@ (TxtUpperA :> TxtUpperA)

\* C20: addPortfolioSkill trims its input; when the trimmed value is empty
\* or already in the list the call changes nothing (the skills, the rendered
\* chips and the input are as before); otherwise the trimmed value is
\* appended at the end of the list, the chips are rendered again and the
\* input is cleared.
C20_AddSkillEffect ==
    [][\A typed \in SkillsTyped :
         addPortfolioSkillTyped(typed) =>
             LET skill == TrimmedSkill[typed]
                 present == \E i \in 1..Len(portfolioSkills) :
                                portfolioSkills[i] = skill
             IN  /\ (skill = Empty \/ present) =>
                        /\ UNCHANGED <<portfolioSkills, lists>>
                        /\ field'["portfolioSkillInput"] = typed
                 /\ ~(skill = Empty \/ present) =>
                        /\ portfolioSkills' = Append(portfolioSkills, skill)
                        /\ Shows(lists'.portfolioSkillsList,
                                 [i \in 1..Len(portfolioSkills') |->
                                     <<portfolioSkills'[i]>>],
                                 "removePortfolioSkill")
                        /\ field'["portfolioSkillInput"] = Empty
                 /\ UNCHANGED <<portfolioCertificates, portfolioWorkExperience,
                                pendingReads>>]_vars

\* a blank skill was typed and ignored after two skills were added
C20_Witness ==
    /\ field["portfolioSkillInput"] = Blank
    /\ portfolioSkills = <<TxtUpperA, TxtA>>
    /\ Len(lists.portfolioSkillsList) = 2

----------------------------------------------------------------------------
(* Properties of the timers of a generation *)

C22_ReadOutlivesReset ==
    /\ [][\A i \in 1..(2 * MaxPendingGenerations) :
             (i <= Len(timers) /\ resetTimer(i)) =>
                 /\ pendingReads' = pendingReads
                 /\ portfolioCertificates' = <<>>]_vars
    /\ [][\A r \in 1..MaxPendingReads :
             (r <= Len(pendingReads) /\ readerOnload(r)) =>
                 /\ Len(portfolioCertificates') = Len(portfolioCertificates) + 1
                 /\ portfolioCertificates'[Len(portfolioCertificates')].name =
                        pendingReads[r].cert.name
                 /\ UNCHANGED timers]_vars
    /\ [][createPortfolioFromBuilder =>
             /\ out'.data.certificates = portfolioCertificates
             /\ out'.windowOpen = "window" =>
                    \A i \in 1..Len(out'.written.sections) :
                        out'.written.sections[i].tag = "Certificates & Achievements"
                            => Len(out'.written.sections[i].parts)
                                   = Len(portfolioCertificates)
             /\ UNCHANGED pendingReads]_vars

\* the modal is closed and every timer has run, so the last handlers were a
\* generation and its reset, and no certificate can have been added since;
\* yet the list holds the certificate of a read that completed afterwards
C22_Witness ==
    /\ ~modalActive
    /\ timers = <<>>
    /\ pendingReads = <<>>
    /\ Len(portfolioCertificates) = 1
    /\ portfolioCertificates[1].image # Null
    /\ lists.portfolioCertsList # <<>>

\* C23: the reset scheduled by a generation fires unconditionally: whatever
\* was changed since the generation, with the modal open again or not, it
\* empties the skills, the certificates and the work entries and returns
\* portfolioCurrentStep to 1 and leaves the modal as it is; every
\* generation schedules exactly one reset, only a reset that runs takes one
\* away, and every scheduled reset runs.
C23_ResetUnconditional ==
    /\ [][\A i \in 1..MaxResubmissions :
             (i <= Len(timers) /\ resetTimer(i)) =>
                 /\ portfolioSkills' = <<>>
                 /\ portfolioCertificates' = <<>>
                 /\ portfolioWorkExperience' = <<>>
                 /\ portfolioCurrentStep' = 1
                 /\ ui'.activeStep = 1
                 /\ modalActive' = modalActive
                 /\ PendingResets' = PendingResets - 1]_vars
    /\ [][createPortfolioFromBuilder => PendingResets' = PendingResets + 1]_vars
    /\ [][PendingResets' < PendingResets => Reset]_vars
    /\ [](PendingResets > 0 => ENABLED Reset)
    /\ \A k \in 1..MaxResubmissions :
           (PendingResets = k) ~>
               (portfolioSkills = <<>> /\ portfolioWorkExperience = <<>>
                /\ portfolioCertificates = <<>> /\ portfolioCurrentStep = 1)
    /\ (PendingResets = MaxResubmissions) ~> (PendingResets < MaxResubmissions)

\* two generations were made, the modal was opened again, a skill was added
\* and the user went back: both resets are still to come
C23_Witness ==
    /\ PendingResets = 2
    /\ modalActive
    /\ portfolioSkills # <<>>
    /\ portfolioCurrentStep = 0

----------------------------------------------------------------------------
(* Properties of the submission and of the project sub-forms *)

\* the submission validates nothing and does not look at the step: it can
\* be called in every state, shows no message, generates from the inputs
\* as they are and schedules one reset
SubmitsFromAnyState ==
    /\ [](ENABLED createPortfolioFromBuilder)
    /\ [][createPortfolioFromBuilder =>
             /\ out'.alerts = <<>>
             /\ out'.focus = ""
             /\ ~out'.threw
             /\ out'.data.fullName = field["portfolioFullName"]
             /\ out'.data.skills = portfolioSkills
             /\ PendingResets' = PendingResets + 1
             /\ UNCHANGED portfolioCurrentStep]_vars

\* the three controls follow the displayed step
ControlsFollowStep ==
    /\ ui.createBtn = "block" <=> ui.activeStep = portfolioTotalSteps
    /\ ui.nextBtn = "block" <=> ui.activeStep # portfolioTotalSteps
    /\ ui.prevBtn = "block" <=> ui.activeStep # 1

\* C24: createPortfolioFromBuilder performs no validation and is not guarded
\* by the step: it generates a document and schedules the reset from any
\* value of portfolioCurrentStep, also with required inputs empty; the
\* create control is shown exactly when the displayed step is
\* portfolioTotalSteps, the next control exactly when it is not, and the
\* previous control exactly when the displayed step is not 1.
C24_SubmitUnguarded == SubmitsFromAnyState /\ []ControlsFollowStep

\* C25: after every completed handler portfolioProjectCount is the number of
\* project sub-forms in the collection surface: both are 1 initially and
\* after a reset, and addPortfolioProjectField increases both by exactly one.
C25_CountIsSubForms ==
    /\ [](portfolioProjectCount = Len(projectCards))
    /\ [][addPortfolioProjectField =>
             /\ portfolioProjectCount' = portfolioProjectCount + 1
             /\ Len(projectCards') = Len(projectCards) + 1
             /\ SubSeq(projectCards', 1, Len(projectCards)) = projectCards]_vars
    /\ [][Reset => (portfolioProjectCount' = 1 /\ Len(projectCards') = 1)]_vars

\* a second sub-form was added and filled in, and a reset is still to come
C25_Witness ==
    /\ portfolioProjectCount = 2
    /\ Len(projectCards) = 2
    /\ projectCards[2].name = TxtA
    /\ timers = <<ResetTimerEntry>>

----------------------------------------------------------------------------
(* C26: after any sequence of toggle clicks, navigation clicks, Escape      *)
(* presses, outside clicks and resizes, state.isMenuOpen is true exactly    *)
(* when the navbar carries 'active' and the toggle carries 'bx-x'; and      *)
(* after Escape, after a click outside the navbar and the toggle, after a   *)
(* navigation to an existing section and after handleResize ran at a width  *)
(* above 768, the menu is closed.                                           *)

MenuInStep ==
    /\ page.isMenuOpen <=> "active" \in page.navbar
    /\ page.isMenuOpen <=> "bx-x" \in page.menuToggle

MenuClosedNext == ~ page'.isMenuOpen /\ page'.navbar = {} /\ page'.menuToggle = {}

----------------------------------------------------------------------------
(* C27: after any sequence of toggle, Escape and outside-click events on    *)
(* the certificate cards at most one card carries 'cert-card-active';       *)
(* toggling an inactive card makes it the only active card and toggling the *)
(* active card leaves no card active.                                       *)

\* the events that reach toggleCertificatePreview(card): Enter or space on
\* the card, a click on it on a desktop, the end of a short touch
TogglesCard(card) ==
    \/ \E key \in {"Enter", " "} : KeyDownOn(key, card)
    \/ ~ ontouchstart /\ ClickCardOf(card)
    \/ card \in page.touchStarted /\ TouchEndOn(card)

C27_OnePreview ==
    /\ [](Cardinality(page.cardActive) <= 1)
    /\ [][\A card \in Cards :
              TogglesCard(card) =>
                  page'.cardActive =
                      IF card \in page.cardActive THEN {} ELSE {card}]_vars
    /\ [][((\E focus \in Cards \cup {NoCard} : KeyDownOn("Escape", focus))
           \/ ClickElsewhere \/ ClickNavLink)
              => page'.cardActive = {}]_vars

\* one preview is open and another card was opened and closed before
C27_Witness ==
    \E card, other \in Cards :
        /\ card # other
        /\ page.cardActive = {card}
        /\ page.ariaExpanded[card] = "true"
        /\ page.ariaExpanded[other] = "false"

----------------------------------------------------------------------------
(* C28: in the typewriter loop, at every tick 0 <= currentChar <= length of *)
(* the current phrase; a phrase is typed one character per tick until it is *)
(* fully displayed, then deleted one character per tick until the text is   *)
(* empty, and only then does the loop move on, to the next phrase in the    *)
(* cyclic order 0,1,2,3,0,...; every phrase is fully displayed infinitely   *)
(* often.                                                                   *)

CurrentPhrase == phrases[typewriter.currentPhrase]

CharInRange ==
    /\ typewriter.currentChar >= 0
    /\ typewriter.currentChar <= Len(CurrentPhrase)
    /\ typewriter.textContent = SubSeq(CurrentPhrase, 1, typewriter.currentChar)

\* one tick while typing, while deleting, and the only tick that changes
\* the phrase
TickByTick ==
    /\ ~ typewriter.isDeleting =>
           /\ typewriter'.currentChar = typewriter.currentChar + 1
           /\ typewriter'.currentPhrase = typewriter.currentPhrase
           /\ typewriter'.isDeleting =
                  (typewriter'.textContent = CurrentPhrase)
    /\ typewriter.isDeleting =>
           /\ typewriter'.currentChar = typewriter.currentChar - 1
           /\ typewriter'.isDeleting = (typewriter'.textContent # <<>>)
           /\ typewriter'.currentPhrase =
                  IF typewriter'.textContent = <<>>
                  THEN (typewriter.currentPhrase + 1) % 4
                  ELSE typewriter.currentPhrase

C28_TypewriterLoop ==
    /\ []CharInRange
    /\ [][Tick => TickByTick]_vars
    /\ \A i \in 0..3 :
           []<>(typewriter.currentPhrase = i /\ typewriter.textContent = phrases[i])

\* the last phrase is fully displayed and about to be deleted
C28_Witness ==
    /\ typewriter.currentPhrase = 3
    /\ typewriter.textContent = phrases[3]
    /\ typewriter.isDeleting
    /\ typewriter.speed = typewriterDelay

----------------------------------------------------------------------------
(* C29: after every contact-form submission that passed validation has      *)
(* finished, the submit button is enabled again and shows the label it had  *)
(* before any submission started, also when a second submission is started  *)
(* while the first is still pending; a submission that fails validation     *)
(* never disables the button and never starts the simulated send.           *)

ButtonRestoredNext ==
    /\ contactForm'.disabled = FALSE
    /\ contactForm'.innerHTML = OriginalLabel

RefusedSubmission ==
    \E data \in ContactInputs :
        ~ validateContactForm(data) /\ handleContactForm(data)

C29_ButtonRestored ==
    /\ [][SendCompletes => ButtonRestoredNext]_vars
    /\ [][RefusedSubmission =>
              /\ contactForm'.disabled = contactForm.disabled
              /\ contactForm'.innerHTML = contactForm.innerHTML
              /\ pendingSends' = pendingSends]_vars

----------------------------------------------------------------------------
(* C30: the wrapper of throttle(func, limit) invokes func at once on the    *)
(* first call and then drops, without deferring it, every call made until   *)
(* the limit timer runs, so that func runs at most once per limit window;   *)
(* the wrapper of debounce(func, delay) never invokes func at call time and *)
(* invokes it exactly once, with the arguments of the last call, when a     *)
(* burst of calls is followed by delay without a further call.              *)

\* the limit window is open exactly while the limit timer is set
LimitWindow ==
    /\ scroller.throttleTimers \in {0, 1}
    /\ scroller.inThrottle <=> scroller.throttleTimers = 1
    /\ Len(resizeTimer) <= 1

ThrottleDrops ==
    \A y \in ScrollYs :
        ScrollTo(y) =>
            IF scroller.inThrottle
            THEN /\ out'.invoked = <<>>
                 /\ scroller' = [scroller EXCEPT !.scrollY = y]
            ELSE /\ out'.invoked = <<[func |-> "handleScroll", args |-> y]>>
                 /\ scroller'.inThrottle
                 /\ scroller'.throttleTimers = 1

DebounceDefers ==
    \A width \in Widths :
        (Resize /\ innerWidth' = width) =>
            /\ out'.invoked = <<>>
            /\ page' = page
            /\ resizeTimer' = <<width>>

C30_ThrottleDebounce ==
    /\ []LimitWindow
    /\ [][ThrottleDrops]_vars
    /\ [][ThrottleTimer =>
              /\ out'.invoked = <<>>
              /\ scroller' = [scroller EXCEPT !.inThrottle = FALSE,
                                              !.throttleTimers = 0]]_vars
    /\ [][DebounceDefers]_vars
    /\ [][ResizeSettles =>
              /\ out'.invoked = <<[func |-> "handleResize",
                                   args |-> innerWidth]>>
              /\ resizeTimer' = NoTimers]_vars
    /\ (resizeTimer # NoTimers) ~>
           (/\ resizeTimer = NoTimers
            /\ out.invoked = <<[func |-> "handleResize", args |-> innerWidth]>>)

\* a scroll past the back-to-top offset was dropped inside the limit
\* window (the header is not sticky although no handleScroll is under way),
\* while a resize waits for its delay
C30_Witness ==
    /\ scroller.inThrottle
    /\ ~ scroller.isScrolling
    /\ scroller.scrollY > BackToTopOffset
    /\ ~ scroller.sticky
    /\ resizeTimer # NoTimers

====
